---- MODULE Spec2Model ----
(***************************************************************************)
(* Model of duplicate_utils/duplicate_checker.py: title normalisation      *)
(* (clean_title), the difflib similarity ratio (similarity_score) and the  *)
(* DuplicateChecker class (is_duplicate, add_scholarship, get_stats).      *)
(*                                                                         *)
(* A Python string is a sequence of one-character strings.  None (and an   *)
(* absent dictionary key, which dict.get turns into None) is the value     *)
(* None below, which is different from every string.                       *)
(***************************************************************************)
EXTENDS Integers, Sequences, FiniteSets, TLC

None == <<"<None>">>

\* Python truthiness of an optional string: None and '' are falsy.
Truthy(v) == v # None /\ v # <<>>

Max(S) == CHOOSE x \in S : \A y \in S : y <= x
Min(S) == CHOOSE x \in S : \A y \in S : x <= y

\* s[i] with 1-based i, and "" (no character) outside the string.
At(s, i) == IF i >= 1 /\ i <= Len(s) THEN s[i] ELSE ""

IsDigit(c) == c \in {"0", "1", "2", "3", "4", "5", "6", "7", "8", "9"}
IsSpace(c) == c \in {" ", "\t"}

UpperChars == <<"A", "B", "C", "D", "E", "F", "G", "H", "I", "J", "K", "L", "M",
                "N", "O", "P", "Q", "R", "S", "T", "U", "V", "W", "X", "Y", "Z">>
LowerChars == <<"a", "b", "c", "d", "e", "f", "g", "h", "i", "j", "k", "l", "m",
                "n", "o", "p", "q", "r", "s", "t", "u", "v", "w", "x", "y", "z">>

\* title.lower()
lower(s) ==
    [i \in 1..Len(s) |->
        IF \E k \in 1..26 : UpperChars[k] = s[i]
        THEN LowerChars[CHOOSE k \in 1..26 : UpperChars[k] = s[i]]
        ELSE s[i]]

\* Length of the match of 20\d{2} at position i, 0 when there is none.
YearLen(s, i) ==
    IF At(s, i) = "2" /\ At(s, i + 1) = "0"
       /\ IsDigit(At(s, i + 2)) /\ IsDigit(At(s, i + 3))
    THEN 4 ELSE 0

\* Length of the match of 20\d{2}[-/]2?\d at position i (2? is greedy and
\* backtracks), 0 when there is none.
YearRangeLen(s, i) ==
    IF YearLen(s, i) = 4 /\ At(s, i + 4) \in {"-", "/"}
    THEN IF At(s, i + 5) = "2" /\ IsDigit(At(s, i + 6)) THEN 7
         ELSE IF IsDigit(At(s, i + 5)) THEN 6
         ELSE 0
    ELSE 0

\* re.sub(r'20\d{2}[-/]2?\d', '', s): leftmost non-overlapping matches.
RECURSIVE SubYearRange(_, _)
SubYearRange(s, i) ==
    IF i > Len(s) THEN <<>>
    ELSE IF YearRangeLen(s, i) > 0 THEN SubYearRange(s, i + YearRangeLen(s, i))
    ELSE <<s[i]>> \o SubYearRange(s, i + 1)

\* re.sub(r'20\d{2}', '', s)
RECURSIVE SubYear(_, _)
SubYear(s, i) ==
    IF i > Len(s) THEN <<>>
    ELSE IF YearLen(s, i) > 0 THEN SubYear(s, i + 4)
    ELSE <<s[i]>> \o SubYear(s, i + 1)

\* The phrase p occurs in s at position i.
OccursAt(s, i, p) ==
    /\ i + Len(p) - 1 <= Len(s)
    /\ \A k \in 1..Len(p) : s[i + k - 1] = p[k]

\* s.replace(p, '') from position i on, for a non-empty p.
RECURSIVE Replace(_, _, _)
Replace(s, i, p) ==
    IF i > Len(s) THEN <<>>
    ELSE IF OccursAt(s, i, p) THEN Replace(s, i + Len(p), p)
    ELSE <<s[i]>> \o Replace(s, i + 1, p)

\* Mutant of phrases_to_remove: the entry 'scholarship' is missing.
phrases_without_scholarship ==
    << <<"f", "u", "l", "l", "y", " ", "f", "u", "n", "d", "e", "d">>,
       <<"a", "p", "p", "l", "y", " ", "n", "o", "w">>,
       <<"s", "c", "h", "o", "l", "a", "r", "s", "h", "i", "p", "s">>,
       <<"i", "n">>,
       <<"a", "t">>,
       <<"f", "o", "r">>,
       <<"t", "h", "e">>,
       <<"f", "u", "n", "d", "e", "d">>,
       <<"f", "u", "l", "l">>,
       <<"f", "r", "e", "e">> >>

\* phrases_to_remove (lines 26-30)
phrases_to_remove ==
    << <<"f", "u", "l", "l", "y", " ", "f", "u", "n", "d", "e", "d">>,
       <<"a", "p", "p", "l", "y", " ", "n", "o", "w">>,
       <<"s", "c", "h", "o", "l", "a", "r", "s", "h", "i", "p">>,
       <<"s", "c", "h", "o", "l", "a", "r", "s", "h", "i", "p", "s">>,
       <<"i", "n">>,
       <<"a", "t">>,
       <<"f", "o", "r">>,
       <<"t", "h", "e">>,
       <<"f", "u", "n", "d", "e", "d">>,
       <<"f", "u", "l", "l">>,
       <<"f", "r", "e", "e">> >>

\* for phrase in phrases_to_remove: title = title.replace(phrase, ''),
\* starting with the k-th phrase.
RECURSIVE RemovePhrases(_, _)
RemovePhrases(s, k) ==
    IF k > Len(phrases_to_remove) THEN s
    ELSE RemovePhrases(Replace(s, 1, phrases_to_remove[k]), k + 1)

\* First position >= i of s that holds no whitespace (Len(s) + 1 if none).
RECURSIVE SkipSpace(_, _)
SkipSpace(s, i) ==
    IF i <= Len(s) /\ IsSpace(s[i]) THEN SkipSpace(s, i + 1) ELSE i

\* re.sub(r'\s+', ' ', s)
RECURSIVE CollapseSpace(_, _)
CollapseSpace(s, i) ==
    IF i > Len(s) THEN <<>>
    ELSE IF IsSpace(s[i]) THEN <<" ">> \o CollapseSpace(s, SkipSpace(s, i))
    ELSE <<s[i]>> \o CollapseSpace(s, i + 1)

\* Position of the first ')' at or after i, 0 when there is none.
RECURSIVE FindClose(_, _)
FindClose(s, i) ==
    IF i > Len(s) THEN 0
    ELSE IF s[i] = ")" THEN i
    ELSE FindClose(s, i + 1)

\* re.sub(r'\([^)]*\)', '', s)
RECURSIVE RemoveParens(_, _)
RemoveParens(s, i) ==
    IF i > Len(s) THEN <<>>
    ELSE IF s[i] = "(" /\ FindClose(s, i + 1) > 0
         THEN RemoveParens(s, FindClose(s, i + 1) + 1)
    ELSE <<s[i]>> \o RemoveParens(s, i + 1)

\* Position of the last non-whitespace character at or before i, 0 if none.
RECURSIVE LastNonSpace(_, _)
LastNonSpace(s, i) ==
    IF i >= 1 /\ IsSpace(s[i]) THEN LastNonSpace(s, i - 1) ELSE i

\* s.strip()
strip(s) ==
    IF SkipSpace(s, 1) > Len(s) THEN <<>>
    ELSE SubSeq(s, SkipSpace(s, 1), LastNonSpace(s, Len(s)))

\* clean_title(title)
clean_title(title) ==
    IF ~Truthy(title) THEN <<>>
    ELSE LET lowered  == lower(title)
             noRange  == SubYearRange(lowered, 1)
             noYear   == SubYear(noRange, 1)
             noPhrase == RemovePhrases(noYear, 1)
             oneSpace == CollapseSpace(noPhrase, 1)
             noParens == RemoveParens(oneSpace, 1)
         IN  strip(noParens)

\* Length of the common run of a[i:ahi] and b[j:bhi] (0-based i, j).
RECURSIVE CommonLen(_, _, _, _, _, _)
CommonLen(a, b, i, j, ahi, bhi) ==
    IF i < ahi /\ j < bhi /\ a[i + 1] = b[j + 1]
    THEN 1 + CommonLen(a, b, i + 1, j + 1, ahi, bhi)
    ELSE 0

\* SequenceMatcher.find_longest_match(alo, ahi, blo, bhi) without junk:
\* <<i, j, k>>, the longest block a[i:i+k] = b[j:j+k] in the window, the one
\* starting earliest in a and, among those, earliest in b.
find_longest_match(a, b, alo, ahi, blo, bhi) ==
    LET I == alo..(ahi - 1)
        J == blo..(bhi - 1)
        k == Max({CommonLen(a, b, i, j, ahi, bhi) : i \in I, j \in J} \cup {0})
    IN  IF k = 0 THEN <<alo, blo, 0>>
        ELSE LET besti == Min({i \in I : \E j \in J :
                                 CommonLen(a, b, i, j, ahi, bhi) = k})
                 bestj == Min({j \in J :
                                 CommonLen(a, b, besti, j, ahi, bhi) = k})
             IN  <<besti, bestj, k>>

\* Total size of SequenceMatcher.get_matching_blocks() in the window: the
\* longest match, then the pieces to its left and to its right.
RECURSIVE Matches(_, _, _, _, _, _)
Matches(a, b, alo, ahi, blo, bhi) ==
    IF alo >= ahi \/ blo >= bhi THEN 0
    ELSE LET m == find_longest_match(a, b, alo, ahi, blo, bhi)
         IN  IF m[3] = 0 THEN 0
             ELSE m[3] + Matches(a, b, alo, m[1], blo, m[2])
                       + Matches(a, b, m[1] + m[3], ahi, m[2] + m[3], bhi)

\* similarity_score(a, b) as the fraction <<numerator, denominator>>:
\* 0 when either argument is falsy, else ratio() = 2.0 * matches / length.
similarity_score(a, b) ==
    IF ~Truthy(a) \/ ~Truthy(b) THEN <<0, 1>>
    ELSE <<2 * Matches(a, b, 0, Len(a), 0, Len(b)), Len(a) + Len(b)>>

\* Comparisons of a fraction with a number of hundredths (0.85 is 85).
Less(r, pct) == r[1] * 100 < pct * r[2]
Greater(r, pct) == r[1] * 100 > pct * r[2]

\* The constructor's default similarity_threshold and the three thresholds
\* of the corroborating signals, in hundredths.
DefaultThreshold == 85
UniversityThreshold == 70
CountryThreshold == 80
DeadlineThreshold == 60

\* Largest number of add_scholarship calls followed.
MaxCalls == 3

(***************************************************************************)
(* The records submitted.  A record is a dictionary with the four keys the *)
(* checker reads; a key that is absent or maps to None is None.            *)
(***************************************************************************)
Rec(t, d, u, c) ==
    [Title |-> t, Deadline |-> d, HostUniversity |-> u, HostCountry |-> c]

TitleAbc == <<"a", "b", "c">>
TitleAbcYear == <<"A", "B", "C", " ", "2", "0", "2", "5", "/", "2", "6">>
TitleAbcd == <<"a", "b", "c", "d">>
TitleAbcde == <<"a", "b", "c", "d", "e">>
TitleAb == <<"a", "b">>
TitleLong ==
    <<"b", "c", "d", "e", "g", "h", "j", "k", "m",
      "p", "q", "r", "u", "v", "w", "x", "y", "z", "b", "c">>
TitleLongOther ==
    <<"b", "c", "d", "e", "g", "h", "j", "k", "m",
      "p", "q", "r", "u", "v", "w", "x", "y", "q", "q", "q">>
TitleFiller == <<"i", "n", " ", "2", "0", "2", "5">>
May1 == <<"m", "a", "y", "1">>
May2 == <<"m", "a", "y", "2">>
May234 == <<"m", "a", "y", "2", "3", "4">>
Uni1 == <<"a", "a", "a", "a", "b", "a", "a", "a">>
Uni5 == <<"a", "a", "b", "b", "a", "a", "a", "a">>
Uni9 == <<"a", "a", "a", "a", "a", "a", "a", "a", "a", "a", "a", "a">>
De == <<"d", "e">>
Deu == <<"d", "e", "u">>

R1 == Rec(TitleAbc, May1, Uni1, De)
\* the normalized title of R1, no other field
R2 == Rec(TitleAbcYear, None, None, None)
\* a title close to R1's; empty and absent fields
R3 == Rec(TitleAbcd, <<>>, None, <<>>)
\* close title, R1's deadline
R4 == Rec(TitleAbcd, May1, None, None)
\* close title, a university 0.75 similar to R1's (0.5 the other way round)
R5 == Rec(TitleAbcd, None, Uni5, None)
\* close title, R1's country and a deadline 0.75 similar to R1's
R6 == Rec(TitleAbcd, May2, None, De)
\* as R6 with a country exactly 0.8 similar to R1's
R7 == Rec(TitleAbcd, May2, None, Deu)
\* as R6 with a deadline exactly 0.6 similar to R1's
R8 == Rec(TitleAbcd, May234, None, De)
\* close title, a university exactly 0.7 similar to R1's
R9 == Rec(TitleAbcd, None, Uni9, None)
\* a title exactly 0.8 similar to R1's, all of R1's other fields
R10 == Rec(TitleAb, May1, Uni1, De)
\* a title close to R4's but not to R1's, R1's deadline
R13 == Rec(TitleAbcde, May1, None, None)
\* two titles exactly 0.85 similar, the same deadline
R14 == Rec(TitleLong, May1, None, None)
R15 == Rec(TitleLongOther, May1, None, None)
\* no title, all of R1's other fields
R11 == Rec(None, May1, Uni1, De)
\* a title that normalizes to '', all of R1's other fields
R12 == Rec(TitleFiller, May1, Uni1, De)

Records == {R1, R2, R3, R4, R5, R6, R7, R8, R9, R10, R11, R12, R13,
            R14, R15}

\* The records of the module's example run (lines 152-171).
Title1 ==
    <<"D", "A", "A", "D", " ", "S", "c", "h", "o", "l", "a", "r", "s", "h",
      "i", "p", " ", "i", "n", " ", "G", "e", "r", "m", "a", "n", "y", " ",
      "2", "0", "2", "5", " ", "(", "F", "u", "l", "l", "y", " ", "F", "u",
      "n", "d", "e", "d", ")">>
Title2 ==
    <<"F", "u", "l", "l", "y", " ", "F", "u", "n", "d", "e", "d", " ", "D",
      "A", "A", "D", " ", "G", "e", "r", "m", "a", "n", "y", " ", "S", "c",
      "h", "o", "l", "a", "r", "s", "h", "i", "p", " ", "(", "A", "p", "p",
      "l", "y", " ", "N", "o", "w", ")">>
Title3 ==
    <<"E", "r", "a", "s", "m", "u", "s", " ", "M", "u", "n", "d", "u", "s",
      " ", "S", "c", "h", "o", "l", "a", "r", "s", "h", "i", "p", " ", "2",
      "0", "2", "5", " ", "i", "n", " ", "F", "r", "a", "n", "c", "e">>
March15 ==
    <<"M", "a", "r", "c", "h", " ", "1", "5", ",", " ", "2", "0", "2", "5">>
May30 ==
    <<"M", "a", "y", " ", "3", "0", ",", " ", "2", "0", "2", "5">>
Germany ==
    <<"G", "e", "r", "m", "a", "n", "y">>
France ==
    <<"F", "r", "a", "n", "c", "e">>
BerlinUniversity ==
    <<"B", "e", "r", "l", "i", "n", " ", "U", "n", "i", "v", "e", "r", "s",
      "i", "t", "y">>
SorbonneUniversity ==
    <<"S", "o", "r", "b", "o", "n", "n", "e", " ", "U", "n", "i", "v", "e",
      "r", "s", "i", "t", "y">>
scholarship1 == Rec(Title1, March15, BerlinUniversity, Germany)
scholarship2 == Rec(Title2, March15, BerlinUniversity, Germany)
scholarship3 == Rec(Title3, May30, SorbonneUniversity, France)
Examples == {scholarship1, scholarship2, scholarship3}

\* Every string the records hold, raw and normalized.
Titles == {r.Title : r \in Records \cup Examples}
Strings ==
    UNION {{r.Deadline, r.HostUniversity, r.HostCountry} :
              r \in Records \cup Examples}
        \cup {clean_title(t) : t \in Titles}

\* clean_title and similarity_score on those strings, evaluated once.
Cleaned == [t \in Titles |-> clean_title(t)]
Similarity ==
    [a \in Strings |-> [b \in Strings |-> similarity_score(a, b)]]

\* clean_title(record.get('Title', '')) (lines 66, 73, 80)
title_of(record) == Cleaned[record.Title]

\* similarity_score(a, b) at its call sites (lines 83, 95, 107, 112)
score(a, b) == Similarity[a][b]

\* The values of similarity_threshold the checker is constructed with.
Thresholds == {DefaultThreshold, 80}

VARIABLES
    scholarships,           \* self.scholarships, the accepted list
    similarity_threshold,   \* self.similarity_threshold, in hundredths
    duplicate_count,        \* self.duplicate_count
    ret,                    \* the last call and the value it returned
    log                     \* every add_scholarship call: the argument, the
                            \* result, and the accepted list and the
                            \* counter before and after it

\* The state of a run of main (src/main/scrap_main.py).
VARIABLES
    pc,                     \* where main is
    dry_run,                \* main's argument
    driver,                 \* the browser: "none", "open" or "quit"
    region_index,           \* the number of regions the loop has been through
    scraper_calls,          \* every call of a scraper function, in order
    all_csv_files,          \* all_csv_files, the files to combine
    cwd,                    \* the region CSV files of the working directory
    output,                 \* the files of the output directory
    combine_call            \* the call of combine_csv_files by main

mainVars == <<pc, dry_run, driver, region_index, scraper_calls,
              all_csv_files, cwd, output, combine_call>>

\* The state of a caller of the checker: combine_csv_files
\* (src/main/scrap_main.py) or check_duplicates_in_file
\* (src/duplicate_utils/check_duplicates_simple.py).
VARIABLES
    caller,                 \* the function called, "none" before the call
    caller_pc,              \* where the caller is
    csv_files,              \* csv_files, or the one input_file
    first_file,             \* what the first file holds when the call starts
    file_index,             \* the number of files the loop has been through
    pending,                \* the rows of the open file not read yet
    fieldnames,             \* the header the output files are written with
    all_rows,               \* all_rows
    unique_rows,            \* unique_rows
    duplicate_rows,         \* duplicate_rows (check_duplicates_in_file)
    file_log,               \* what happened to each file of the list
    out_files               \* the rows of each output file written

callerVars == <<caller, caller_pc, csv_files, first_file, file_index, pending,
                fieldnames, all_rows, unique_rows, duplicate_rows, file_log,
                out_files>>

\* The state of a call of safe_file_move (src/main/scrap_main.py).
VARIABLES
    move_pc,                \* where safe_file_move is
    src_file,               \* the path src_file
    create_backup,          \* the argument create_backup
    fs,                     \* what each path of the file system holds
    dest_before,            \* what dest_file held when the call started
    move_result             \* the value returned

moveVars == <<move_pc, src_file, create_backup, fs, dest_before, move_result>>

\* The state of an upload (src/db_upload.py): the scholarships table of the
\* database and a call of process_csv_file.
VARIABLES
    upload_pc,              \* where the upload is
    table,                  \* the rows of the scholarships table, by id
    csv_file,               \* the rows of the CSV file that is processed
    upload_pass,            \* how often the file has been processed
    total_rows,             \* total_rows, the number of rows gone through
    inserted_rows,          \* inserted_rows of the present call
    failed_rows,            \* the rows of the file an earlier call failed on
    slug_call,              \* the last call of ensure_unique_slug
    clock                   \* the second that datetime.now() is in

uploadVars == <<upload_pc, table, csv_file, upload_pass, total_rows,
                inserted_rows, failed_rows, slug_call, clock>>

\* The state of a run of verify_csv_files (src/verify_csv_files.py).
VARIABLES
    verify_pc,              \* where verify_csv_files is
    scanned,                \* csv_files: what each file found holds
    checked,                \* the number of files the loop has been through
    valid_count,            \* valid_count
    repaired_count,         \* repaired_count
    failed_count,           \* failed_count
    unrepaired,               \* the files that were read without a repair
    rewritten               \* the files that a repair has rewritten

verifyVars == <<verify_pc, scanned, checked, valid_count, repaired_count,
                failed_count, unrepaired, rewritten>>

\* The state of a call of find_duplicates
\* (src/duplicate_utils/check_duplicates.py).
VARIABLES
    find_pc,                \* where find_duplicates is
    combined_df,            \* combined_df, the rows with their marks
    reported,               \* duplicate_count as line 151 prints it
    pairs,                  \* the pairs of rows the similarity pass marked
    filtered_df             \* filtered_df, the rows of the deduplicated file

findVars == <<find_pc, combined_df, reported, pairs, filtered_df>>

checkerVars == <<scholarships, similarity_threshold, duplicate_count, ret, log>>

\* The variables that the actions of one part of the program leave alone.
besideChecker ==
    <<mainVars, callerVars, moveVars, uploadVars, verifyVars, findVars>>
besideMain ==
    <<checkerVars, callerVars, moveVars, uploadVars, verifyVars, findVars>>
besideCaller == <<mainVars, moveVars, uploadVars, verifyVars, findVars>>
besideMove ==
    <<checkerVars, mainVars, callerVars, uploadVars, verifyVars, findVars>>
besideUpload ==
    <<checkerVars, mainVars, callerVars, moveVars, verifyVars, findVars>>
besideVerify ==
    <<checkerVars, mainVars, callerVars, moveVars, uploadVars, findVars>>
besideFind ==
    <<checkerVars, mainVars, callerVars, moveVars, uploadVars, verifyVars>>

vars == <<checkerVars, mainVars, callerVars, moveVars, uploadVars,
          verifyVars, findVars>>

\* Mutant of EmptyTitle: the guard on an empty title is missing.
EmptyTitleUnguarded(title) == FALSE

\* The candidate title is too degraded to compare: not title (line 68).
EmptyTitle(title) == title = <<>>

\* Mutant of ExactMatch: the title of the accepted record is compared raw.
ExactMatchRaw(title, existing) == title = existing.Title

\* existing is an exact-title match of the candidate title (line 74).
ExactMatch(title, existing) == title = title_of(existing)

\* The fuzzy pass skips existing: titles are not similar enough (line 83).
TitleSkipped(title, existing, threshold) ==
    Less(score(title, title_of(existing)), threshold)

\* Mutant of DeadlineSignal: the deadlines are compared without the test
\* that both are present.
DeadlineSignalUnguarded(scholarship, existing) ==
    scholarship.Deadline = existing.Deadline

\* Both deadlines present and equal (lines 88-89).
DeadlineSignal(scholarship, existing) ==
    /\ Truthy(scholarship.Deadline) /\ Truthy(existing.Deadline)
    /\ scholarship.Deadline = existing.Deadline

\* Mutant of UniversitySignal: the comparison with 0.7 is not strict.
UniversitySignalNotStrict(scholarship, existing) ==
    /\ Truthy(scholarship.HostUniversity) /\ Truthy(existing.HostUniversity)
    /\ ~Less(score(scholarship.HostUniversity, existing.HostUniversity),
             UniversityThreshold)

\* Both host universities present and similar (lines 94-99).
UniversitySignal(scholarship, existing) ==
    /\ Truthy(scholarship.HostUniversity) /\ Truthy(existing.HostUniversity)
    /\ Greater(score(scholarship.HostUniversity, existing.HostUniversity),
               UniversityThreshold)

\* Host countries and deadlines present and both similar (lines 104-117).
CountrySignal(scholarship, existing) ==
    /\ Truthy(scholarship.HostCountry) /\ Truthy(existing.HostCountry)
    /\ Truthy(scholarship.Deadline) /\ Truthy(existing.Deadline)
    /\ Greater(score(scholarship.HostCountry, existing.HostCountry),
               CountryThreshold)
    /\ Greater(score(scholarship.Deadline, existing.Deadline),
               DeadlineThreshold)

\* The body of the second loop returns True for existing (lines 79-119).
FuzzyMatch(scholarship, title, existing, threshold) ==
    /\ ~TitleSkipped(title, existing, threshold)
    /\ \/ DeadlineSignal(scholarship, existing)
       \/ UniversitySignal(scholarship, existing)
       \/ CountrySignal(scholarship, existing)

\* Mutant of Counted: one increment for every matching accepted record.
CountedPerMatch(count, hits) == count + Cardinality(hits)

\* duplicate_count after a call of is_duplicate that found the matches
\* hits: one increment, then return (lines 75-76, 90-91, 100-101, 118-119).
Counted(count, hits) == IF hits = {} THEN count ELSE count + 1

\* Mutant of is_duplicate: the pass over exact title matches is missing.
is_duplicate_fuzzy_only(scholarship, accepted, threshold, count) ==
    LET title == title_of(scholarship)
        fuzzy == {i \in 1..Len(accepted) :
                    FuzzyMatch(scholarship, title, accepted[i], threshold)}
    IN  IF EmptyTitle(title) THEN [result |-> FALSE, count |-> count]
        ELSE [result |-> fuzzy # {}, count |-> Counted(count, fuzzy)]

\* is_duplicate(scholarship) on the accepted list accepted: the value
\* returned and duplicate_count afterwards.
is_duplicate(scholarship, accepted, threshold, count) ==
    LET title == title_of(scholarship)
        exact == {i \in 1..Len(accepted) : ExactMatch(title, accepted[i])}
        fuzzy == {i \in 1..Len(accepted) :
                    FuzzyMatch(scholarship, title, accepted[i], threshold)}
    IN  IF EmptyTitle(title) THEN [result |-> FALSE, count |-> count]
        ELSE IF exact # {} THEN [result |-> TRUE, count |-> Counted(count, exact)]
        ELSE [result |-> fuzzy # {}, count |-> Counted(count, fuzzy)]

\* Mutant of Added: the record is appended whatever is_duplicate returned.
AddedAlways(accepted, scholarship, duplicate) == Append(accepted, scholarship)

\* Mutant of Added: an accepted record goes to the front of the list.
AddedInFront(accepted, scholarship, duplicate) ==
    IF duplicate THEN accepted ELSE <<scholarship>> \o accepted

\* Mutant of Added: the accepted list keeps only the latest accepted record.
AddedReplacing(accepted, scholarship, duplicate) ==
    IF duplicate THEN accepted ELSE <<scholarship>>

\* self.scholarships after add_scholarship (lines 133-137).
Added(accepted, scholarship, duplicate) ==
    IF duplicate THEN accepted ELSE Append(accepted, scholarship)

\* get_stats()
get_stats(accepted, count) ==
    [total_processed |-> Len(accepted) + count,
     duplicates_found |-> count,
     unique_scholarships |-> Len(accepted)]

\* The regions main scrapes, in the order of the dict (lines 261-337).
regions ==
    << [name |-> "Africa", type |-> "scholarships_corner"],
       [name |-> "Europe-OpportunitiesCorners",
        type |-> "opportunities_corners"],
       [name |-> "UK", type |-> "opportunities_corners"] >>

RegionNames == {regions[i].name : i \in 1..Len(regions)}

\* main has not been called: no browser, no file.
MainNotCalled ==
    /\ pc = "not called"
    /\ dry_run = FALSE
    /\ driver = "none"
    /\ region_index = 0
    /\ scraper_calls = <<>>
    /\ all_csv_files = <<>>
    /\ cwd = [name \in RegionNames |-> "absent"]
    /\ output = {}
    /\ combine_call = [called |-> FALSE, files |-> <<>>, raised |-> FALSE]

\* A CSV file: whether it exists, its header, and the records of its rows.
\* The header "extended" has a column that the header "base" has not.
MissingFile == [exists |-> FALSE, header |-> "base", rows |-> <<>>]

\* No caller of the checker has been called.
CallerNotCalled ==
    /\ caller = "none"
    /\ caller_pc = "not called"
    /\ csv_files = <<>>
    /\ first_file = MissingFile
    /\ file_index = 0
    /\ pending = <<>>
    /\ fieldnames = "none"
    /\ all_rows = <<>>
    /\ unique_rows = <<>>
    /\ duplicate_rows = <<>>
    /\ file_log = <<>>
    /\ out_files = [file \in {} |-> <<>>]

\* The paths safe_file_move touches: the source, the destination, and the
\* backup of the destination.
Paths == {"src", "dest", "backup"}

\* safe_file_move has not been called.
MoveNotCalled ==
    /\ move_pc = "not called"
    /\ src_file = "src"
    /\ create_backup = TRUE
    /\ fs = [path \in Paths |-> "absent"]
    /\ dest_before = "absent"
    /\ move_result = "none"

\* DuplicateChecker(similarity_threshold)
\* No database is connected and no file has been processed.
UploadNotCalled ==
    /\ upload_pc = "not connected"
    /\ table = <<>>
    /\ csv_file = <<>>
    /\ upload_pass = 0
    /\ total_rows = 0
    /\ inserted_rows = 0
    /\ failed_rows = {}
    /\ slug_call = [called |-> FALSE]
    /\ clock = 1

\* verify_csv_files has not been called.
VerifyNotCalled ==
    /\ verify_pc = "not called"
    /\ scanned = <<>>
    /\ checked = 0
    /\ valid_count = 0
    /\ repaired_count = 0
    /\ failed_count = 0
    /\ unrepaired = {}
    /\ rewritten = {}

\* find_duplicates has not been called.
FindNotCalled ==
    /\ find_pc = "not called"
    /\ combined_df = <<>>
    /\ reported = 0
    /\ pairs = <<>>
    /\ filtered_df = {}

Init ==
    /\ scholarships = <<>>
    /\ similarity_threshold \in Thresholds
    /\ duplicate_count = 0
    /\ ret = [op |-> "__init__"]
    /\ log = <<>>
    /\ MainNotCalled
    /\ CallerNotCalled
    /\ MoveNotCalled
    /\ UploadNotCalled
    /\ VerifyNotCalled
    /\ FindNotCalled

\* checker.add_scholarship(scholarship)
AddScholarship(scholarship) ==
    LET d == is_duplicate(scholarship, scholarships,
                          similarity_threshold, duplicate_count)
    IN  /\ Len(log) < MaxCalls
        /\ duplicate_count' = d.count
        /\ scholarships' = Added(scholarships, scholarship, d.result)
        /\ ret' = [op |-> "add_scholarship", value |-> ~d.result]
        /\ log' = Append(log, [scholarship |-> scholarship,
                               returned |-> ~d.result,
                               before |-> scholarships,
                               after |-> scholarships',
                               count_before |-> duplicate_count,
                               count_after |-> duplicate_count'])
        /\ UNCHANGED <<similarity_threshold, besideChecker>>

\* checker.get_stats()
GetStats ==
    /\ ret' = [op |-> "get_stats",
               value |-> get_stats(scholarships, duplicate_count)]
    /\ UNCHANGED <<scholarships, similarity_threshold, duplicate_count, log,
                   besideChecker>>

Next ==
    \/ \E scholarship \in Records : AddScholarship(scholarship)
    \/ GetStats

Spec == Init /\ [][Next]_vars

\* checker.is_duplicate(scholarship), called by a client on its own
IsDuplicate(scholarship) ==
    LET d == is_duplicate(scholarship, scholarships,
                          similarity_threshold, duplicate_count)
    IN  /\ duplicate_count < MaxCalls
        /\ duplicate_count' = d.count
        /\ ret' = [op |-> "is_duplicate", value |-> d.result]
        /\ UNCHANGED <<scholarships, similarity_threshold, log, besideChecker>>

\* The three public methods in any interleaving.
NextPublic ==
    \/ \E scholarship \in Records : AddScholarship(scholarship)
    \/ \E scholarship \in Records : IsDuplicate(scholarship)
    \/ GetStats

SpecPublic == Init /\ [][NextPublic]_vars

\* The example run: the checker of the example is fed its three records.
NextExample ==
    \/ \E scholarship \in Examples : AddScholarship(scholarship)
    \/ GetStats

SpecExample == Init /\ [][NextExample]_vars

(***************************************************************************)
(* The two module-level functions called on their own.  They keep no       *)
(* state: a behaviour follows one call, and for clean_title a second call  *)
(* on the result of the first.                                             *)
(***************************************************************************)

\* Longest title and longest string of the calls below.
MaxTitleLen == 4
MaxStrLen == 4

\* All strings over the characters chars of length at most n.
RECURSIVE StringsUpTo(_, _)
StringsUpTo(chars, n) ==
    IF n = 0 THEN {<<>>}
    ELSE LET shorter == StringsUpTo(chars, n - 1)
         IN  shorter \cup {Append(t, c) : t \in shorter, c \in chars}

TitleChars == {"2", "0", "i", "n", " ", "(", ")"}
ScoreChars == {"a", "b"}

\* A title with a year range of each of the four shapes, and without one.
TitleDaad == <<"D", "A", "A", "D">>
YearRanges ==
    { <<"2", "0", "2", "5", "/", "2", "6">>,
      <<"2", "0", "2", "5", "-", "2", "6">>,
      <<"2", "0", "2", "4", "/", "2", "0", "2", "5">>,
      <<"2", "0", "2", "4", "-", "2", "0", "2", "5">> }
WithYearRange(range) == TitleDaad \o <<" ">> \o range

\* The title of the specification's year example.
TitleDaadGermany ==
    <<"D", "A", "A", "D", " ", "S", "c", "h", "o", "l", "a", "r", "s", "h",
      "i", "p", " ", "2", "0", "2", "5", "/", "2", "6", " ", "i", "n", " ",
      "G", "e", "r", "m", "a", "n", "y">>

\* Titles that are one word containing a filler as a substring.
TitleChina == <<"c", "h", "i", "n", "a">>
TitleTraining == <<"t", "r", "a", "i", "n", "i", "n", "g">>

\* A title with a filler between the halves of a year, and a title with a
\* parenthetical aside between two words.
TitleYearAround == <<"2", "0", "i", "n", "2", "5">>
TitleAside == <<"a", " ", "(", "b", ")", " ", "c">>

\* The titles clean_title is called with.
TitleInputs ==
    StringsUpTo(TitleChars, MaxTitleLen)
        \cup {None, TitleDaad, TitleDaadGermany, TitleChina, TitleTraining,
              TitleYearAround, TitleAside}
        \cup {WithYearRange(range) : range \in YearRanges}

\* The strings similarity_score is called with.
ScoreInputs == StringsUpTo(ScoreChars, MaxStrLen) \cup {None}

\* clean_title(title)
CleanTitle(title) ==
    /\ ret.op = "__init__"
    /\ ret' = [op |-> "clean_title", title |-> title,
               value |-> clean_title(title)]
    /\ UNCHANGED <<scholarships, similarity_threshold, duplicate_count, log,
                   besideChecker>>

\* clean_title(clean_title(title)): the second call
CleanTitleAgain ==
    /\ ret.op = "clean_title"
    /\ ret' = [op |-> "clean_title_again", title |-> ret.value,
               value |-> clean_title(ret.value)]
    /\ UNCHANGED <<scholarships, similarity_threshold, duplicate_count, log,
                   besideChecker>>

\* similarity_score(a, b)
SimilarityScore(a, b) ==
    /\ ret.op = "__init__"
    /\ ret' = [op |-> "similarity_score", a |-> a, b |-> b,
               value |-> similarity_score(a, b)]
    /\ UNCHANGED <<scholarships, similarity_threshold, duplicate_count, log,
                   besideChecker>>

NextFunctions ==
    \/ \E title \in TitleInputs : CleanTitle(title)
    \/ CleanTitleAgain
    \/ \E a \in ScoreInputs : \E b \in ScoreInputs : SimilarityScore(a, b)

SpecFunctions == Init /\ [][NextFunctions]_vars

(***************************************************************************)
(* main(dry_run) of src/main/scrap_main.py.  The scrapers, the browser and *)
(* the file system are its environment: a scraper returns a file name,     *)
(* returns None or raises, and leaves its region file absent, empty, with  *)
(* a header only, or with rows.  A region file is named by its region.     *)
(***************************************************************************)

\* What a scraper call does: how it ends, and the region file it leaves.
ScraperResults == {"file", "none", "raise"}
Contents == {"absent", "empty", "header", "rows"}

\* Mutant of DryRunBranch: the dry-run test is missing.
DryRunIgnored(dry) == FALSE

\* if dry_run: (line 340)
DryRunBranch(dry) == dry

\* validate_csv_file(csv_file): the file exists and holds a row
validate_csv_file(content) == content = "rows"

\* All the orders in which the files of the set S can be listed.
Orderings(S) ==
    {q \in [1..Cardinality(S) -> S] :
        \A i \in DOMAIN q : \A j \in DOMAIN q : i # j => q[i] # q[j]}

\* The set of the elements of the sequence q.
Range(q) == {q[i] : i \in DOMAIN q}

\* main(dry_run): the browser is created (line 258), or its creation raises
Main(dry) ==
    /\ pc = "not called"
    /\ dry_run' = dry
    /\ \E created \in BOOLEAN :
           IF created
           THEN /\ driver' = "open"
                /\ pc' = IF DryRunBranch(dry) THEN "dry run" ELSE "regions"
           ELSE /\ driver' = "none"
                /\ pc' = "raised"
    /\ UNCHANGED <<region_index, scraper_calls, all_csv_files, cwd, output,
                   combine_call>>
    /\ UNCHANGED besideMain

\* The dry run: the regions are printed, the browser is closed (lines 340-345)
DryRun ==
    /\ pc = "dry run"
    /\ driver' = "quit"
    /\ pc' = "returned"
    /\ UNCHANGED <<dry_run, region_index, scraper_calls, all_csv_files, cwd,
                   output, combine_call>>
    /\ UNCHANGED besideMain

\* The scraper returned a file name and the file exists (line 370, read
\* without the check of the returned value)
AppendedUnchecked(result, content) == result # "raise"

\* The loop appends the file: the scraper did not raise (line 374), returned
\* a file name and the file exists (line 370)
Appended(result, content) == result = "file" /\ content # "absent"

\* One turn of the loop over the regions (lines 353-384)
ScrapeRegion ==
    /\ pc = "regions"
    /\ region_index < Len(regions)
    /\ LET region == regions[region_index + 1]
       IN  \E result \in ScraperResults : \E content \in Contents :
               /\ scraper_calls' =
                      Append(scraper_calls,
                             [scraper |-> region.type, region |-> region.name,
                              result |-> result, content |-> content])
               /\ cwd' = [cwd EXCEPT ![region.name] = content]
               /\ all_csv_files' =
                      IF Appended(result, content)
                      THEN Append(all_csv_files, region.name)
                      ELSE all_csv_files
    /\ region_index' = region_index + 1
    /\ UNCHANGED <<pc, dry_run, driver, output, combine_call>>
    /\ UNCHANGED besideMain

\* cleanup_temporary_files(all_csv_files) (lines 222-249, 387): a region file
\* that is not in the list is added to it if it is valid, removed otherwise
CleanupTemporaryFiles ==
    /\ pc = "regions"
    /\ region_index = Len(regions)
    /\ LET unlisted == {name \in RegionNames :
                           /\ cwd[name] # "absent"
                           /\ name \notin Range(all_csv_files)}
           found == {name \in unlisted : validate_csv_file(cwd[name])}
       IN  /\ \E order \in Orderings(found) :
                  all_csv_files' = all_csv_files \o order
           /\ \E removed \in SUBSET (unlisted \ found) :
                  cwd' = [name \in RegionNames |->
                             IF name \in removed THEN "absent" ELSE cwd[name]]
    /\ pc' = "combine"
    /\ UNCHANGED <<dry_run, driver, region_index, scraper_calls, output,
                   combine_call>>
    /\ UNCHANGED besideMain

\* The name of each combined file in the output directory.
AllFile == "all_scholarships.csv"
UniqueFile == "unique_scholarships.csv"

\* The combine step (lines 390-408) with combine_csv_files (lines 114-207):
\* the valid files of the list are read, each file read may be moved to the
\* output directory, and if a row was read the two combined files are
\* written; a read, a move or a write may fail, which skips it, and the
\* call may raise, which the except clause of line 406 prints.  With an
\* empty list nothing is combined (lines 390-391).
CombineFiles ==
    /\ pc = "combine"
    /\ IF all_csv_files = <<>>
       THEN UNCHANGED <<cwd, output, combine_call>>
       ELSE LET valid_csv_files ==
                    SelectSeq(all_csv_files,
                              LAMBDA name : validate_csv_file(cwd[name]))
            IN  \E read \in SUBSET Range(valid_csv_files) :
                \E moved \in SUBSET read :
                \E written \in SUBSET {AllFile, UniqueFile} :
                \E raised \in BOOLEAN :
                    /\ read = {} => written = {}
                    /\ cwd' = [name \in RegionNames |->
                                  IF name \in moved THEN "absent"
                                  ELSE cwd[name]]
                    /\ output' = output \cup moved \cup written
                    /\ combine_call' = [called |-> TRUE,
                                        files |-> valid_csv_files,
                                        raised |-> raised]
    /\ pc' = "finally"
    /\ UNCHANGED <<dry_run, driver, region_index, scraper_calls,
                   all_csv_files>>
    /\ UNCHANGED besideMain

\* finally: driver.quit() (lines 415-417)
Finally ==
    /\ pc = "finally"
    /\ driver' = "quit"
    /\ pc' = "returned"
    /\ UNCHANGED <<dry_run, region_index, scraper_calls, all_csv_files, cwd,
                   output, combine_call>>
    /\ UNCHANGED besideMain

NextMain ==
    \/ \E dry \in BOOLEAN : Main(dry)
    \/ DryRun
    \/ ScrapeRegion
    \/ CleanupTemporaryFiles
    \/ CombineFiles
    \/ Finally

SpecMain == Init /\ [][NextMain]_vars

(***************************************************************************)
(* The callers of the checker: combine_csv_files(csv_files, output_dir) of *)
(* src/main/scrap_main.py and check_duplicates_in_file(input_file) of      *)
(* src/duplicate_utils/check_duplicates_simple.py.  The files are the      *)
(* environment: a file is missing or holds a header and rows, opening or   *)
(* reading it may raise, and moving it may fail.                           *)
(***************************************************************************)

\* The most files in csv_files, the most rows in one of them, and the most
\* rows in the input file of check_duplicates_in_file.
MaxFiles == 2
MaxRows == 1
MaxInputRows == 2

\* The records the rows hold: R4 is a fuzzy duplicate of R1.
RowRecords == {R1, R4}
Headers == {"base", "extended"}

\* What a file holds, with at most n rows.
FilesUpTo(n) ==
    {MissingFile} \cup
    {[exists |-> TRUE, header |-> header, rows |-> rows] :
        header \in Headers, rows \in StringsUpTo(RowRecords, n)}

FileContents == FilesUpTo(MaxRows)
InputContents == FilesUpTo(MaxInputRows)

\* The rows csv.DictReader yields for the file: dicts with the columns of
\* the file's header, each a distinct object.
RowsOf(file, content) ==
    [line \in 1..Len(content.rows) |->
        [file |-> file, line |-> line, columns |-> content.header,
         record |-> content.rows[line]]]

\* Mutant of RowsAfter: the row is appended whatever the checker returned.
RowsAfterAlways(rows, row, keep) == Append(rows, row)

\* if ...add_scholarship(row): rows.append(row)
RowsAfter(rows, row, keep) == IF keep THEN Append(rows, row) ELSE rows

\* writer.writerow(row) raises ValueError for a row with a column that is
\* not in fieldnames.
Fits(row, names) == ~(row.columns = "extended" /\ names = "base")

\* The rows in the file after the loop of writer.writerow over rows: the
\* loop ends at the first row that raises.
Written(rows, names) ==
    LET misfits == {i \in 1..Len(rows) : ~Fits(rows[i], names)}
    IN  IF misfits = {} THEN rows
        ELSE SubSeq(rows, 1,
                    (CHOOSE i \in misfits : \A j \in misfits : i <= j) - 1)

\* The frame of an action of a caller that does not call the checker.
CallerFrame == UNCHANGED <<checkerVars, besideCaller>>

\* combine_csv_files(csv_files, output_dir) up to the loop over the files
\* (lines 114-147): n files are listed and the first holds first.
CombineCsvFiles(n, first) ==
    /\ caller_pc = "not called"
    /\ caller' = "combine_csv_files"
    /\ csv_files' = [i \in 1..n |-> i]
    /\ first_file' = first
    /\ scholarships' = <<>>
    /\ similarity_threshold' = DefaultThreshold
    /\ duplicate_count' = 0
    /\ \E readable \in BOOLEAN :
           IF n = 0 \/ ~first.exists \/ ~readable
           THEN /\ caller_pc' = "returned"
                /\ fieldnames' = "none"
           ELSE /\ caller_pc' = "files"
                /\ fieldnames' = first.header
    /\ UNCHANGED <<file_index, pending, all_rows, unique_rows, duplicate_rows,
                   file_log, out_files>>
    /\ UNCHANGED <<ret, log, besideCaller>>

\* The loop reaches the next file (lines 150-155): it is missing and
\* skipped, opening it raises, or it is opened.
OpenFile ==
    /\ caller = "combine_csv_files"
    /\ caller_pc = "files"
    /\ file_index < Len(csv_files)
    /\ LET file == csv_files[file_index + 1]
       IN  \E content \in FileContents : \E opened \in BOOLEAN :
               /\ file = 1 => content = first_file
               /\ IF ~content.exists \/ ~opened
                  THEN /\ file_index' = file_index + 1
                       /\ file_log' =
                              Append(file_log,
                                     [file |-> file,
                                      outcome |-> IF content.exists
                                                  THEN "abandoned"
                                                  ELSE "missing",
                                      rows |-> 0, moved |-> FALSE])
                       /\ UNCHANGED <<caller_pc, pending>>
                  ELSE /\ caller_pc' = "rows"
                       /\ pending' = RowsOf(file, content)
                       /\ UNCHANGED <<file_index, file_log>>
    /\ UNCHANGED <<caller, csv_files, first_file, fieldnames, all_rows,
                   unique_rows, duplicate_rows, out_files>>
    /\ CallerFrame

\* One turn of the loop over the rows of the open file: the row goes to
\* all_rows and to the checker, and to unique_rows if the checker accepts
\* it (scrap_main.py lines 156-161), else, in check_duplicates_in_file, to
\* duplicate_rows (check_duplicates_simple.py lines 38-46).
ReadRow ==
    /\ caller_pc = "rows"
    /\ pending # <<>>
    /\ LET row == Head(pending)
           d == is_duplicate(row.record, scholarships,
                             similarity_threshold, duplicate_count)
       IN  /\ all_rows' = Append(all_rows, row)
           /\ duplicate_count' = d.count
           /\ scholarships' = Added(scholarships, row.record, d.result)
           /\ unique_rows' = RowsAfter(unique_rows, row, ~d.result)
           /\ duplicate_rows' =
                  IF caller = "check_duplicates_in_file"
                  THEN RowsAfter(duplicate_rows, row, d.result)
                  ELSE duplicate_rows
    /\ pending' = Tail(pending)
    /\ UNCHANGED <<caller, caller_pc, csv_files, first_file, file_index,
                   fieldnames, file_log, out_files>>
    /\ UNCHANGED <<similarity_threshold, ret, log, besideCaller>>

\* Reading the open file raises: combine_csv_files abandons the file and
\* goes on with the next (lines 166-170), check_duplicates_in_file returns
\* (lines 48-50).
ReadRaises ==
    /\ caller_pc = "rows"
    /\ pending' = <<>>
    /\ file_index' = file_index + 1
    /\ file_log' = Append(file_log,
                          [file |-> csv_files[file_index + 1],
                           outcome |-> "abandoned",
                           rows |-> Cardinality({i \in 1..Len(all_rows) :
                                       all_rows[i].file
                                           = csv_files[file_index + 1]}),
                           moved |-> FALSE])
    /\ caller_pc' = IF caller = "combine_csv_files" THEN "files"
                    ELSE "returned"
    /\ UNCHANGED <<caller, csv_files, first_file, fieldnames, all_rows,
                   unique_rows, duplicate_rows, out_files>>
    /\ CallerFrame

\* The rows of the open file are read: safe_file_move moves it to the
\* output directory, or fails and returns False (lines 163-164).
MoveFile ==
    /\ caller = "combine_csv_files"
    /\ caller_pc = "rows"
    /\ pending = <<>>
    /\ \E moved \in BOOLEAN :
           file_log' = Append(file_log,
                              [file |-> csv_files[file_index + 1],
                               outcome |-> "read",
                               rows |-> Cardinality({i \in 1..Len(all_rows) :
                                           all_rows[i].file
                                               = csv_files[file_index + 1]}),
                               moved |-> moved])
    /\ file_index' = file_index + 1
    /\ caller_pc' = "files"
    /\ UNCHANGED <<caller, csv_files, first_file, pending, fieldnames,
                   all_rows, unique_rows, duplicate_rows, out_files>>
    /\ CallerFrame

\* After the loop (lines 172-207): nothing is written if no row was read;
\* else the two output files are written, each up to the first row that
\* raises, and the statistics are printed.
WriteCombined ==
    /\ caller = "combine_csv_files"
    /\ caller_pc = "files"
    /\ file_index = Len(csv_files)
    /\ out_files' =
           IF all_rows = <<>> THEN out_files
           ELSE [file \in {AllFile, UniqueFile} |->
                    IF file = AllFile THEN Written(all_rows, fieldnames)
                    ELSE Written(unique_rows, fieldnames)]
    /\ caller_pc' = "returned"
    /\ UNCHANGED <<caller, csv_files, first_file, file_index, pending,
                   fieldnames, all_rows, unique_rows, duplicate_rows, file_log>>
    /\ CallerFrame

\* The output files of check_duplicates_in_file for the one input file.
UniqueOutput == "input_unique.csv"
DuplicatesOutput == "input_duplicates.csv"

\* check_duplicates_in_file(input_file) up to the loop over the rows
\* (check_duplicates_simple.py lines 11-36): the file holds content.
CheckDuplicatesInFile(content) ==
    /\ caller_pc = "not called"
    /\ caller' = "check_duplicates_in_file"
    /\ csv_files' = <<1>>
    /\ first_file' = content
    /\ scholarships' = <<>>
    /\ similarity_threshold' = DefaultThreshold
    /\ duplicate_count' = 0
    /\ \E opened \in BOOLEAN :
           IF ~content.exists \/ ~opened
           THEN /\ caller_pc' = "returned"
                /\ UNCHANGED <<fieldnames, pending>>
           ELSE /\ caller_pc' = "rows"
                /\ fieldnames' = content.header
                /\ pending' = RowsOf(1, content)
    /\ UNCHANGED <<file_index, all_rows, unique_rows, duplicate_rows,
                   file_log, out_files>>
    /\ UNCHANGED <<ret, log, besideCaller>>

\* After the loop (check_duplicates_simple.py lines 52-73): the unique rows
\* are written, and the duplicate rows if there are any.
WriteChecked ==
    /\ caller = "check_duplicates_in_file"
    /\ caller_pc = "rows"
    /\ pending = <<>>
    /\ out_files' =
           [file \in IF duplicate_rows = <<>> THEN {UniqueOutput}
                     ELSE {UniqueOutput, DuplicatesOutput} |->
               IF file = UniqueOutput THEN Written(unique_rows, fieldnames)
               ELSE Written(duplicate_rows, fieldnames)]
    /\ caller_pc' = "returned"
    /\ UNCHANGED <<caller, csv_files, first_file, file_index, pending,
                   fieldnames, all_rows, unique_rows, duplicate_rows, file_log>>
    /\ CallerFrame

NextCallers ==
    \/ \E n \in 0..MaxFiles : \E first \in FileContents :
           CombineCsvFiles(n, first)
    \/ OpenFile
    \/ ReadRow
    \/ ReadRaises
    \/ MoveFile
    \/ WriteCombined
    \/ \E content \in InputContents : CheckDuplicatesInFile(content)
    \/ WriteChecked

SpecCallers == Init /\ [][NextCallers]_vars

(***************************************************************************)
(* safe_file_move(src_file, dest_file, create_backup) of                   *)
(* src/main/scrap_main.py.  The file system is its environment: each call  *)
(* of os and shutil may raise, and a copy that raises may leave a partial  *)
(* file behind.  The content of a file is named: "s" for the source's, "d" *)
(* for the destination's, "b" for an older backup's.                       *)
(***************************************************************************)

\* Mutant of AfterExists: no backup is made of an existing destination.
AfterExistsNoBackup(exists, backup) == IF exists THEN "remove" ELSE "move"

\* Where safe_file_move goes after os.path.exists(dest_file) (lines 91-92)
AfterExists(exists, backup) ==
    IF ~exists THEN "move" ELSE IF backup THEN "backup" ELSE "remove"

\* The except clause: the error is printed, False is returned (lines 108-112)
ReturnFalse ==
    /\ move_pc' = "returned"
    /\ move_result' = "False"

\* safe_file_move(src_file, dest_file, create_backup): the destination
\* directory is made (line 88) and the destination is looked for (line 91)
SafeFileMove(src, backup, files) ==
    /\ move_pc = "not called"
    /\ src_file' = src
    /\ create_backup' = backup
    /\ fs' = files
    /\ dest_before' = files["dest"]
    /\ \E made \in BOOLEAN :
           IF made
           THEN /\ move_pc' = AfterExists(files["dest"] # "absent", backup)
                /\ UNCHANGED move_result
           ELSE ReturnFalse
    /\ UNCHANGED besideMove

\* shutil.copy2(dest_file, backup_file) (lines 94-97)
CopyToBackup ==
    /\ move_pc = "backup"
    /\ \E copied \in BOOLEAN : \E left \in {fs["backup"], "partial"} :
           IF copied
           THEN /\ fs' = [fs EXCEPT !["backup"] = fs["dest"]]
                /\ move_pc' = "remove"
                /\ UNCHANGED move_result
           ELSE /\ fs' = [fs EXCEPT !["backup"] = left]
                /\ ReturnFalse
    /\ UNCHANGED <<src_file, create_backup, dest_before>>
    /\ UNCHANGED besideMove

\* os.remove(dest_file) (lines 100-101)
RemoveDest ==
    /\ move_pc = "remove"
    /\ \E removed \in BOOLEAN :
           IF removed
           THEN /\ fs' = [fs EXCEPT !["dest"] = "absent"]
                /\ move_pc' = "move"
                /\ UNCHANGED move_result
           ELSE /\ UNCHANGED fs
                /\ ReturnFalse
    /\ UNCHANGED <<src_file, create_backup, dest_before>>
    /\ UNCHANGED besideMove

\* shutil.move(src_file, dest_file) and return True (lines 104-106): the
\* source is renamed; or the move raises, having changed nothing, having
\* left a partial destination, or having copied the source without
\* removing it
MoveSrc ==
    /\ move_pc = "move"
    /\ \/ /\ fs[src_file] # "absent"
          /\ fs' = [path \in Paths |->
                       IF path = "dest" THEN fs[src_file]
                       ELSE IF path = src_file THEN "absent" ELSE fs[path]]
          /\ move_pc' = "returned"
          /\ move_result' = "True"
       \/ /\ UNCHANGED fs
          /\ ReturnFalse
       \/ /\ fs[src_file] # "absent"
          /\ \E left \in {"partial", fs[src_file]} :
                 fs' = [fs EXCEPT !["dest"] = left]
          /\ ReturnFalse
    /\ UNCHANGED <<src_file, create_backup, dest_before>>
    /\ UNCHANGED besideMove

\* The file systems safe_file_move is called on.
FileSystems ==
    {files \in [Paths -> {"absent", "s", "d", "b"}] :
        /\ files["src"] \in {"absent", "s"}
        /\ files["dest"] \in {"absent", "d"}
        /\ files["backup"] \in {"absent", "b"}}

NextMove ==
    \/ \E src \in {"src", "dest"} : \E backup \in BOOLEAN :
       \E files \in FileSystems : SafeFileMove(src, backup, files)
    \/ CopyToBackup
    \/ RemoveDest
    \/ MoveSrc

SpecMove == Init /\ [][NextMove]_vars

(***************************************************************************)
(* The upload of src/db_upload.py: process_csv_file(cursor, file_path),    *)
(* scholarship_exists(cursor, title, link) and ensure_unique_slug(cursor,  *)
(* base_slug, title) on the scholarships table.  The database is the       *)
(* environment: the table may hold rows before the upload, an INSERT may   *)
(* fail, and the comparisons of the table's collation (utf8mb4_unicode_ci, *)
(* line 122) ignore case and trailing spaces.                              *)
(***************************************************************************)

\* The rows of a CSV file the model processes.
MaxCsvRows == 2
\* How often the model processes the file.
MaxPasses == 2
\* The seconds the model's clock goes through.
MaxClock == 2
\* The largest suffix ensure_unique_slug tries (1000 at line 404), scaled to
\* the model.
MaxCounter == 2
\* The length of the title and link columns (500 at lines 247 and 259),
\* scaled to the model.
MaxColumnLength == 4

DigitChars == <<"0", "1", "2", "3", "4", "5", "6", "7", "8", "9">>

\* str(n) of a natural number
RECURSIVE str(_)
str(n) ==
    IF n < 10 THEN <<DigitChars[n + 1]>>
    ELSE str(n \div 10) \o <<DigitChars[(n % 10) + 1]>>

\* datetime.now().strftime('%Y%m%d%H%M%S') in second t of the clock
Timestamp(t) ==
    <<"2", "0", "2", "6", "0", "1", "0", "1", "0", "0", "0", "0", "0">>
    \o str(t)

\* a = b as the table's collation compares two strings
SqlEqual(a, b) ==
    LET key(v) == lower(SubSeq(v, 1, LastNonSpace(v, Len(v))))
    IN  key(a) = key(b)

\* truncate_field(value, max_length, field_name) (lines 81-91)
truncate_field(value, max_length) ==
    IF value = None THEN None
    ELSE IF Len(strip(value)) > max_length
         THEN SubSeq(strip(value), 1, max_length - 3) \o <<".", ".", ".">>
         ELSE strip(value)

\* re.sub(r'[^\w\s-]', '', slug) then re.sub(r'[\s-]+', '-', slug) then
\* strip('-') (lines 355-361), from position i of s: the words of s joined
\* by one hyphen each.
RECURSIVE SlugWords(_, _, _)
SlugWords(s, i, word) ==
    IF i > Len(s) THEN (IF word = <<>> THEN <<>> ELSE <<word>>)
    ELSE IF IsSpace(s[i]) \/ s[i] = "-"
         THEN (IF word = <<>> THEN <<>> ELSE <<word>>)
              \o SlugWords(s, i + 1, <<>>)
         ELSE IF s[i] \in {".", ",", "!", "?", "(", ")", ":", "'"}
              THEN SlugWords(s, i + 1, word)
              ELSE SlugWords(s, i + 1, Append(word, s[i]))

RECURSIVE JoinHyphen(_)
JoinHyphen(words) ==
    IF words = <<>> THEN <<>>
    ELSE IF Len(words) = 1 THEN words[1]
         ELSE words[1] \o <<"-">> \o JoinHyphen(Tail(words))

\* generate_slug(title) (lines 321-377) on a title without a year and
\* without a marketing or common word, and of a slug of at most 100
\* characters: lines 340-352 and 364-371 leave such a title as it is.
generate_slug(title) ==
    IF title = None \/ strip(title) = <<>> THEN <<>>
    ELSE LET slug == JoinHyphen(SlugWords(lower(title), 1, <<>>))
         IN  IF slug = <<>>
             THEN <<"s", "c", "h", "o", "l", "a", "r", "s", "h", "i", "p">>
             ELSE slug

\* SELECT COUNT(*) FROM scholarships WHERE slug = %s (lines 385-387)
SlugCount(rows, slug) ==
    Cardinality({i \in 1..Len(rows) : SqlEqual(rows[i].slug, slug)})

\* The loop of ensure_unique_slug from a counter on (lines 393-405); the
\* counter stops at MaxCounter
RECURSIVE SlugFrom(_, _, _, _)
SlugFrom(rows, base_slug, counter, now) ==
    LET new_slug == base_slug \o <<"-">> \o str(counter)
    IN  IF SlugCount(rows, new_slug) = 0 THEN new_slug
        ELSE IF counter + 1 > MaxCounter
             THEN base_slug \o <<"-">> \o Timestamp(now)
             ELSE SlugFrom(rows, base_slug, counter + 1, now)

\* ensure_unique_slug(cursor, base_slug, title) (lines 379-405) at second
\* now of the clock
ensure_unique_slug(rows, base_slug, title, now) ==
    LET base == IF base_slug = <<>> \/ base_slug = None
                THEN generate_slug(title) ELSE base_slug
    IN  IF SlugCount(rows, base) = 0 THEN base
        ELSE SlugFrom(rows, base, 1, now)

\* scholarship_exists(cursor, title, link) (lines 126-148): the id of a row
\* with the title or, if a link is given, with the link; 0 for False.  A
\* column that is NULL is equal to nothing.
scholarship_exists(rows, title, link) ==
    LET found == {i \in 1..Len(rows) :
                     \/ SqlEqual(rows[i].title, title)
                     \/ /\ link # None
                        /\ rows[i].link # None
                        /\ SqlEqual(rows[i].link, link)}
    IN  IF found = {} THEN 0 ELSE Min(found)

TitleA == <<"a">>
TitleSpaceA == <<" ", "a">>
TitleASpace == <<"a", " ">>
TitleAaaaa == <<"a", "a", "a", "a", "a">>
LinkL == <<"l">>
SlugA == <<"a">>

\* The rows of the CSV files: a title, a link, a slug and whether the
\* deadline has passed; None is an empty cell.
CsvRow(title, link, slug, expired) ==
    [Title |-> title, Link |-> link, Slug |-> slug, expired |-> expired]

CsvRows ==
    {CsvRow(None, None, None, FALSE),
     CsvRow(TitleA, None, SlugA, FALSE),
     CsvRow(TitleA, LinkL, None, FALSE),
     CsvRow(TitleA, None, SlugA, TRUE),
     CsvRow(TitleSpaceA, None, SlugA, FALSE),
     CsvRow(TitleSpaceA, LinkL, SlugA, FALSE),
     CsvRow(TitleASpace, None, None, FALSE),
     CsvRow(TitleAaaaa, None, SlugA, FALSE)}

\* The slugs of the rows a table may hold before the upload.
EarlierSlugs ==
    <<SlugA, SlugA \o <<"-", "1">>, SlugA \o <<"-", "2">>,
      SlugA \o <<"-">> \o Timestamp(1)>>

\* The table that holds one earlier row for each chosen slug: the rows have
\* no link, and titles that no CSV file has.
TableOf(chosen) ==
    LET slugs == SelectSeq(EarlierSlugs, LAMBDA slug : slug \in chosen)
    IN  [i \in 1..Len(slugs) |->
            [title |-> <<"t">> \o slugs[i], link |-> None,
             slug |-> slugs[i], record |-> 0]]

UploadFrame == UNCHANGED besideUpload

\* main of db_upload.py up to the files (lines 429-436): the database is
\* connected, and CREATE TABLE IF NOT EXISTS keeps the rows the table has.
Connect(slugs) ==
    /\ upload_pc = "not connected"
    /\ table' = TableOf(slugs)
    /\ upload_pc' = "connected"
    /\ UNCHANGED <<csv_file, upload_pass, total_rows, inserted_rows,
                   failed_rows, slug_call, clock>>
    /\ UploadFrame

\* process_csv_file(cursor, file_path) up to the loop (lines 150-161): the
\* first call is given a file, a later call the same file.  pd.read_csv may
\* raise, which returns at once (lines 312-319).
ProcessCsvFile(file) ==
    /\ upload_pc = "connected"
    /\ upload_pass < MaxPasses
    /\ upload_pass > 0 => file = csv_file
    /\ \E read \in BOOLEAN :
           IF read
           THEN /\ upload_pc' = "rows"
                /\ upload_pass' = upload_pass + 1
                /\ csv_file' = file
                /\ total_rows' = 0
                /\ inserted_rows' = 0
           ELSE UNCHANGED <<upload_pc, upload_pass, csv_file, total_rows,
                            inserted_rows>>
    /\ UNCHANGED <<table, failed_rows, slug_call, clock>>
    /\ UploadFrame

\* One turn of the loop over the rows (lines 162-303)
ProcessRow ==
    /\ upload_pc = "rows"
    /\ total_rows < Len(csv_file)
    /\ total_rows' = total_rows + 1
    /\ LET row == csv_file[total_rows + 1]
           title == truncate_field(row.Title, MaxColumnLength)
           base == IF Truthy(row.Slug) THEN row.Slug
                   ELSE generate_slug(title)
           slug == ensure_unique_slug(table, base, title, clock)
           link == truncate_field(row.Link, MaxColumnLength)
           skipped ==
               \/ row.Title = None
               \/ strip(row.Title) = <<>>
               \/ scholarship_exists(table, row.Title, row.Link) # 0
               \/ row.expired
       IN  IF skipped
           THEN UNCHANGED <<table, inserted_rows, failed_rows, slug_call>>
           ELSE /\ slug_call' = [called |-> TRUE, base |-> base,
                                 rows |-> table, now |-> clock,
                                 value |-> slug]
                /\ \E executed \in BOOLEAN :
                       IF executed /\ SlugCount(table, slug) = 0
                       THEN /\ table' =
                                   Append(table,
                                          [title |-> title, link |-> link,
                                           slug |-> slug,
                                           record |-> total_rows + 1])
                            /\ inserted_rows' = inserted_rows + 1
                            /\ UNCHANGED failed_rows
                       ELSE /\ failed_rows' =
                                   failed_rows \cup {total_rows + 1}
                            /\ UNCHANGED <<table, inserted_rows>>
    /\ UNCHANGED <<upload_pc, csv_file, upload_pass, clock>>
    /\ UploadFrame

\* process_csv_file returns the counts (lines 305-310)
ReturnCounts ==
    /\ upload_pc = "rows"
    /\ total_rows = Len(csv_file)
    /\ upload_pc' = "connected"
    /\ UNCHANGED <<table, csv_file, upload_pass, total_rows, inserted_rows,
                   failed_rows, slug_call, clock>>
    /\ UploadFrame

\* A second passes.
Tick ==
    /\ clock < MaxClock
    /\ clock' = clock + 1
    /\ UNCHANGED <<upload_pc, table, csv_file, upload_pass, total_rows,
                   inserted_rows, failed_rows, slug_call>>
    /\ UploadFrame

\* The CSV files of at most MaxCsvRows rows.
CsvFiles ==
    UNION {[1..n -> CsvRows] : n \in 0..MaxCsvRows}

NextUpload ==
    \/ \E slugs \in SUBSET Range(EarlierSlugs) : Connect(slugs)
    \/ \E file \in CsvFiles : ProcessCsvFile(file)
    \/ ProcessRow
    \/ ReturnCounts
    \/ Tick

SpecUpload == Init /\ [][NextUpload]_vars

(***************************************************************************)
(* verify_csv_files(directory) of src/verify_csv_files.py with             *)
(* verify_and_repair_csv(csv_file_path) of src/utils/file_utils.py.  The   *)
(* files are the environment: a file found by the scan has rows, has a     *)
(* header only, has lines that pandas cannot read, or is gone when it is   *)
(* checked; a backup, a write or the reading of the fixed file may fail.   *)
(***************************************************************************)

\* The files a scan finds.
MaxScanned == 3

\* What a file holds: rows that can be read, a header only, lines that
\* cannot be read, or nothing because the file does not exist any more.
FileKinds == {"rows", "header", "corrupt", "missing"}

\* The path that a repair returns (line 183, after the rename of line 181)
RepairedPath(csv_file_path) == <<csv_file_path>>

\* verify_and_repair_csv(csv_file_path) (lines 107-190) on a file of a kind:
\* repaired says that the backup, the write and the reading of the fixed
\* file all went through.  The result is (is_valid, fixed_file_path); the
\* path None is <<>>.
verify_and_repair_csv(csv_file_path, kind, repaired) ==
    IF kind = "missing" THEN [is_valid |-> FALSE, fixed_path |-> <<>>]
    ELSE IF kind = "rows"
         THEN [is_valid |-> TRUE, fixed_path |-> <<csv_file_path>>]
    ELSE IF kind = "header" THEN [is_valid |-> FALSE, fixed_path |-> <<>>]
    ELSE IF repaired
         THEN [is_valid |-> TRUE, fixed_path |-> RepairedPath(csv_file_path)]
         ELSE [is_valid |-> FALSE, fixed_path |-> <<>>]

VerifyFrame == UNCHANGED besideVerify

\* verify_csv_files(directory) up to the loop (lines 30-50): the scan
VerifyCsvFiles(found) ==
    /\ verify_pc = "not called"
    /\ scanned' = found
    /\ verify_pc' = "files"
    /\ UNCHANGED <<checked, valid_count, repaired_count, failed_count,
                   unrepaired, rewritten>>
    /\ VerifyFrame

\* One turn of the loop over the files (lines 52-64)
CheckFile ==
    /\ verify_pc = "files"
    /\ checked < Len(scanned)
    /\ checked' = checked + 1
    /\ LET path == checked + 1
           kind == scanned[path]
       IN  \E repaired \in BOOLEAN :
               LET result == verify_and_repair_csv(path, kind, repaired)
               IN  /\ unrepaired' = IF kind = "rows"
                                  THEN unrepaired \cup {path}
                                  ELSE unrepaired
                   /\ rewritten' = IF kind = "corrupt" /\ repaired
                                   THEN rewritten \cup {path}
                                   ELSE rewritten
                   /\ IF result.is_valid /\ result.fixed_path = <<path>>
                      THEN /\ valid_count' = valid_count + 1
                           /\ UNCHANGED <<repaired_count, failed_count>>
                      ELSE IF result.is_valid
                           THEN /\ repaired_count' = repaired_count + 1
                                /\ UNCHANGED <<valid_count, failed_count>>
                           ELSE /\ failed_count' = failed_count + 1
                                /\ UNCHANGED <<valid_count, repaired_count>>
    /\ UNCHANGED <<verify_pc, scanned>>
    /\ VerifyFrame

\* The summary is printed (lines 66-70)
Summary ==
    /\ verify_pc = "files"
    /\ checked = Len(scanned)
    /\ verify_pc' = "returned"
    /\ UNCHANGED <<scanned, checked, valid_count, repaired_count,
                   failed_count, unrepaired, rewritten>>
    /\ VerifyFrame

\* The scans of at most MaxScanned files.
Scans ==
    UNION {[1..n -> FileKinds] : n \in 0..MaxScanned}

NextVerify ==
    \/ \E found \in Scans : VerifyCsvFiles(found)
    \/ CheckFile
    \/ Summary

SpecVerify == Init /\ [][NextVerify]_vars

(***************************************************************************)
(* find_duplicates(csv_files, output_dir, similarity_threshold) of         *)
(* src/duplicate_utils/check_duplicates.py on the rows of the files it has *)
(* loaded.  A row of combined_df is known by its index; an empty cell is   *)
(* NaN, written None; a duplicate_group is the number of its name, 0 for   *)
(* None.  clean_title and similarity_score of lines 13-44 are those of     *)
(* duplicate_checker.py.                                                   *)
(***************************************************************************)

\* The rows that find_duplicates loads.
MaxLoaded == 3

D1 == Rec(TitleAbcd, May1, Uni1, De)
D2 == Rec(TitleAbcde, May1, Uni1, De)

\* The rows of the files: R1, D1 and D2 have similar titles, the same
\* deadline and the same university; R4 has no university.
LoadedRows == {R1, R4, D1, D2}

\* combined_df with the columns of lines 81-85
Loaded(rows) ==
    [i \in 1..Len(rows) |->
        [row |-> rows[i], cleaned_title |-> title_of(rows[i]),
         is_duplicate |-> FALSE, duplicate_group |-> 0]]

\* The rows of the group of row i in groupby('cleaned_title') (line 92)
TitleGroup(df, i) ==
    {k \in 1..Len(df) : df[k].cleaned_title = df[i].cleaned_title}

\* df with the rows of a set marked as duplicates of a group
\* (lines 97-98, 139-142)
Mark(df, rows, group) ==
    [k \in 1..Len(df) |->
        IF k \in rows
        THEN [df[k] EXCEPT !.is_duplicate = TRUE, !.duplicate_group = group]
        ELSE df[k]]

\* The pass over the groups of equal cleaned titles (lines 92-99), from row
\* i on; a group is met at its first row, where groupby meets it in the
\* order of the titles, which changes the names of the groups only.
RECURSIVE ExactFrom(_, _)
ExactFrom(st, i) ==
    IF i > Len(st.df) THEN st
    ELSE LET group == TitleGroup(st.df, i)
         IN  IF /\ i = Min(group)
                /\ Cardinality(group) > 1
                /\ st.df[i].cleaned_title # <<>>
             THEN ExactFrom([df |-> Mark(st.df, group, st.groups + 1),
                             groups |-> st.groups + 1,
                             count |-> st.count + Cardinality(group) - 1],
                            i + 1)
             ELSE ExactFrom(st, i + 1)

\* The inner loop (lines 116-145) for row i over the rows of remaining_df
\* from position m on: the row that i is paired with, 0 if there is none,
\* -1 if similarity_score raises TypeError on a university that is NaN
\* (line 133).
RECURSIVE Partner(_, _, _, _, _)
Partner(remaining_df, index, i, m, threshold) ==
    IF m > Len(index) THEN 0
    ELSE LET j == index[m]
             row == remaining_df[i]
             compare_row == remaining_df[j]
             next == Partner(remaining_df, index, i, m + 1, threshold)
         IN  IF i = j \/ compare_row.is_duplicate THEN next
             ELSE IF compare_row.cleaned_title = <<>> THEN next
             ELSE IF ~Greater(score(row.cleaned_title,
                                    compare_row.cleaned_title), threshold)
                  THEN next
             ELSE IF \/ row.row.HostUniversity = None
                     \/ compare_row.row.HostUniversity = None
                  THEN -1
             ELSE IF \/ DeadlineSignal(row.row, compare_row.row)
                     \/ UniversitySignal(row.row, compare_row.row)
                  THEN j
                  ELSE next

\* The outer loop (lines 105-149) from position k of remaining_df on.
\* remaining_df (line 103) is a copy of the rows that the first pass left
\* unmarked: the loops read is_duplicate from this copy, and the marks of
\* lines 139-142 go to combined_df.
RECURSIVE SimilarFrom(_, _, _, _, _)
SimilarFrom(st, remaining_df, index, k, threshold) ==
    IF k > Len(index) THEN st
    ELSE LET i == index[k]
             next == SimilarFrom(st, remaining_df, index, k + 1, threshold)
         IN  IF remaining_df[i].is_duplicate THEN next
             ELSE IF remaining_df[i].cleaned_title = <<>> THEN next
             ELSE LET j == Partner(remaining_df, index, i, 1, threshold)
                  IN  IF j = -1 THEN [st EXCEPT !.raised = TRUE]
                      ELSE IF j = 0 THEN next
                      ELSE SimilarFrom(
                               [df |-> Mark(st.df, {i, j}, st.groups + 1),
                                groups |-> st.groups + 1,
                                count |-> st.count + 1,
                                pairs |-> Append(st.pairs, {i, j}),
                                raised |-> FALSE],
                               remaining_df, index, k + 1, threshold)

\* The rows of filtered_df (lines 162-174): the rows that are not marked
\* and, of each group, the first row that is marked with it.
Filtered(df) ==
    {i \in 1..Len(df) :
        \/ ~df[i].is_duplicate
        \/ /\ df[i].duplicate_group # 0
           /\ \A k \in 1..(i - 1) :
                  ~(/\ df[k].is_duplicate
                    /\ df[k].duplicate_group = df[i].duplicate_group)}

\* find_duplicates(csv_files, output_dir, similarity_threshold)
\* (lines 46-187) on the rows loaded
FindDuplicates(rows, threshold) ==
    /\ find_pc = "not called"
    /\ LET exact == ExactFrom([df |-> Loaded(rows), groups |-> 0,
                               count |-> 0], 1)
           remaining_df == exact.df
           index == SelectSeq([i \in 1..Len(rows) |-> i],
                              LAMBDA i : ~remaining_df[i].is_duplicate)
           done == SimilarFrom([df |-> exact.df, groups |-> exact.groups,
                                count |-> exact.count, pairs |-> <<>>,
                                raised |-> FALSE],
                               remaining_df, index, 1, threshold)
       IN  IF done.raised
           THEN /\ find_pc' = "raised"
                /\ UNCHANGED <<combined_df, reported, pairs, filtered_df>>
           ELSE /\ find_pc' = "returned"
                /\ combined_df' = done.df
                /\ reported' = done.count
                /\ pairs' = done.pairs
                /\ filtered_df' = Filtered(done.df)
    /\ UNCHANGED besideFind

\* The rows loaded: at most MaxLoaded rows.
LoadedInputs ==
    UNION {[1..n -> LoadedRows] : n \in 0..MaxLoaded}

NextFind ==
    \E rows \in LoadedInputs : \E threshold \in Thresholds :
        FindDuplicates(rows, threshold)

SpecFind == Init /\ [][NextFind]_vars

(***************************************************************************)
(* Properties.  They are stated over the log of calls.                     *)
(***************************************************************************)

\* The normalized title of a record.
Norm(r) == title_of(r)

Calls == 1..Len(log)

\* Some record of the list has the normalized title t.
HasTitle(list, t) == \E i \in 1..Len(list) : Norm(list[i]) = t

\* C1: a call of add_scholarship whose record has a non-empty normalized
\* title equal to the normalized title of a record already accepted returns
\* False and leaves the accepted list as it was, whatever the other fields.
C1_ExactPassRejects ==
    \A j \in Calls :
        (/\ Norm(log[j].scholarship) # <<>>
         /\ HasTitle(log[j].before, Norm(log[j].scholarship)))
        => (~log[j].returned /\ log[j].after = log[j].before)

\* A record was rejected for its title alone: it has none of the other
\* fields, the accepted record with its title has them all.
C1_Witness ==
    \E j \in Calls : \E i \in 1..Len(log[j].before) :
        /\ Norm(log[j].scholarship) # <<>>
        /\ Norm(log[j].before[i]) = Norm(log[j].scholarship)
        /\ log[j].before[i].Title # log[j].scholarship.Title
        /\ ~Truthy(log[j].scholarship.Deadline)
        /\ ~Truthy(log[j].scholarship.HostUniversity)
        /\ ~Truthy(log[j].scholarship.HostCountry)
        /\ Truthy(log[j].before[i].Deadline)
        /\ ~log[j].returned

\* C2 as stated: of two submissions with equal non-empty normalized titles,
\* the later one returns False, whatever was submitted before and between.
C2_SecondRejected ==
    \A i \in Calls : \A j \in Calls :
        (/\ i < j
         /\ Norm(log[i].scholarship) # <<>>
         /\ Norm(log[i].scholarship) = Norm(log[j].scholarship))
        => ~log[j].returned

\* C2 amended: of two submissions with equal non-empty normalized titles,
\* the later one returns False provided the accepted list holds a record
\* with that normalized title after the first one (the first was accepted,
\* or was rejected by the exact pass).
C2_SecondRejectedOnceListed ==
    \A i \in Calls : \A j \in Calls :
        (/\ i < j
         /\ Norm(log[i].scholarship) # <<>>
         /\ Norm(log[i].scholarship) = Norm(log[j].scholarship)
         /\ HasTitle(log[i].after, Norm(log[i].scholarship)))
        => ~log[j].returned

\* The first of two differently written records with equal normalized
\* titles was accepted, a record with another title was accepted in
\* between, and the second was rejected.
C2_Witness ==
    /\ Len(log) >= 3
    /\ log[1].returned /\ log[2].returned
    /\ Norm(log[1].scholarship) # <<>>
    /\ Norm(log[1].scholarship) = Norm(log[3].scholarship)
    /\ Norm(log[2].scholarship) # Norm(log[1].scholarship)
    /\ log[1].scholarship # log[3].scholarship
    /\ ~log[3].returned

\* C3: a call of add_scholarship whose record has no title, or a title
\* that is empty after normalization, returns True, appends the record and
\* leaves duplicate_count alone, whatever the accepted list holds.
C3_EmptyTitleAccepted ==
    \A j \in Calls :
        Norm(log[j].scholarship) = <<>>
        => /\ log[j].returned
           /\ log[j].after = Append(log[j].before, log[j].scholarship)
           /\ log[j].count_after = log[j].count_before

\* A record without a usable title was accepted although the accepted list
\* already held a record without one with the same other fields.
C3_Witness ==
    \E j \in Calls : \E i \in 1..Len(log[j].before) :
        /\ Norm(log[j].scholarship) = <<>>
        /\ Norm(log[j].before[i]) = <<>>
        /\ log[j].scholarship.Deadline = log[j].before[i].Deadline
        /\ Truthy(log[j].scholarship.Deadline)
        /\ log[j].returned

\* The three corroborating signals as the specification words them.
SameDeadline(s, e) ==
    Truthy(s.Deadline) /\ Truthy(e.Deadline) /\ s.Deadline = e.Deadline

\* The fraction r compared with pct hundredths.
Exceeds(r, pct) == r[1] * 100 > pct * r[2]
Equals(r, pct) == r[1] * 100 = pct * r[2]

SimilarUniversity(s, e) ==
    /\ Truthy(s.HostUniversity) /\ Truthy(e.HostUniversity)
    /\ Exceeds(score(s.HostUniversity, e.HostUniversity), UniversityThreshold)

SimilarCountryAndDeadline(s, e) ==
    /\ Truthy(s.HostCountry) /\ Truthy(e.HostCountry)
    /\ Truthy(s.Deadline) /\ Truthy(e.Deadline)
    /\ Exceeds(score(s.HostCountry, e.HostCountry), CountryThreshold)
    /\ Exceeds(score(s.Deadline, e.Deadline), DeadlineThreshold)

Corroborated(s, e) ==
    SameDeadline(s, e) \/ SimilarUniversity(s, e)
        \/ SimilarCountryAndDeadline(s, e)

\* The similarity of the normalized titles of s and e, in hundredths,
\* exceeds, equals, or is at least the checker's threshold.
TitleAbove(s, e) == Exceeds(score(Norm(s), Norm(e)), similarity_threshold)
TitleAt(s, e) == Equals(score(Norm(s), Norm(e)), similarity_threshold)
TitleAtLeast(s, e) ==
    LET r == score(Norm(s), Norm(e))
    IN  Exceeds(r, similarity_threshold) \/ Equals(r, similarity_threshold)

\* C4 as stated: a record with no exact title match whose title similarity
\* to every accepted record is at most the threshold is accepted, also when
\* the other fields corroborate.
C4_StrictTitleThreshold ==
    \A j \in Calls :
        (/\ ~HasTitle(log[j].before, Norm(log[j].scholarship))
         /\ \A i \in 1..Len(log[j].before) :
                ~TitleAbove(log[j].scholarship, log[j].before[i]))
        => log[j].returned

\* C5 as stated: a record with no exact title match is accepted and
\* appended when no accepted record whose title similarity exceeds the
\* threshold shows a corroborating signal.
C5_TitleAloneNeverRejects ==
    \A j \in Calls :
        (/\ ~HasTitle(log[j].before, Norm(log[j].scholarship))
         /\ \A i \in 1..Len(log[j].before) :
                TitleAbove(log[j].scholarship, log[j].before[i])
                => ~Corroborated(log[j].scholarship, log[j].before[i]))
        => /\ log[j].returned
           /\ log[j].after = Append(log[j].before, log[j].scholarship)

\* C6: a record is rejected as soon as one accepted record passes the title
\* test and shows one of the three signals; and the signals' comparisons
\* being strict, a record without an exact title match is rejected only if
\* some accepted record passing the title test shows a signal strictly.
C6_EachSignalSuffices ==
    \A j \in Calls :
        /\ \A i \in 1..Len(log[j].before) :
               (/\ TitleAtLeast(log[j].scholarship, log[j].before[i])
                /\ Corroborated(log[j].scholarship, log[j].before[i]))
               => ~log[j].returned
        /\ (/\ ~log[j].returned
            /\ ~HasTitle(log[j].before, Norm(log[j].scholarship)))
           => \E i \in 1..Len(log[j].before) :
                  /\ TitleAtLeast(log[j].scholarship, log[j].before[i])
                  /\ Corroborated(log[j].scholarship, log[j].before[i])

\* The university similarity of s and e is exactly 0.7.
UniversityAt(s, e) ==
    /\ Truthy(s.HostUniversity) /\ Truthy(e.HostUniversity)
    /\ Equals(score(s.HostUniversity, e.HostUniversity), UniversityThreshold)

\* One record was rejected on the country and deadline signal alone, and
\* one was accepted whose university is exactly 0.7 similar to that of an
\* accepted record with a close title.
C6_Witness ==
    /\ \E j \in Calls : \E i \in 1..Len(log[j].before) :
           /\ ~log[j].returned
           /\ ~HasTitle(log[j].before, Norm(log[j].scholarship))
           /\ SimilarCountryAndDeadline(log[j].scholarship, log[j].before[i])
           /\ ~SameDeadline(log[j].scholarship, log[j].before[i])
           /\ ~SimilarUniversity(log[j].scholarship, log[j].before[i])
    /\ \E j \in Calls : \E i \in 1..Len(log[j].before) :
           /\ log[j].returned
           /\ TitleAbove(log[j].scholarship, log[j].before[i])
           /\ UniversityAt(log[j].scholarship, log[j].before[i])

\* The number of calls in the log that returned b.
Returned(b) == Cardinality({j \in Calls : log[j].returned = b})

\* C7: get_stats reports duplicates_found = the number of calls that
\* returned False, unique_scholarships = the number of calls that returned
\* True = the length of the accepted list, total_processed = their sum =
\* the number of calls.
C7_StatsCountCalls ==
    LET stats == get_stats(scholarships, duplicate_count)
    IN  /\ stats.duplicates_found = Returned(FALSE)
        /\ stats.unique_scholarships = Returned(TRUE)
        /\ stats.unique_scholarships = Len(scholarships)
        /\ stats.total_processed = Len(log)
        /\ stats.total_processed
               = stats.duplicates_found + stats.unique_scholarships
        /\ ret.op = "get_stats" => ret.value = stats

\* get_stats was called after a record was rejected that two accepted
\* records match in the fuzzy pass.
C7_Witness ==
    /\ ret.op = "get_stats"
    /\ \E j \in Calls :
           /\ ~log[j].returned
           /\ ~HasTitle(log[j].before, Norm(log[j].scholarship))
           /\ Cardinality({i \in 1..Len(log[j].before) :
                  /\ TitleAtLeast(log[j].scholarship, log[j].before[i])
                  /\ Corroborated(log[j].scholarship, log[j].before[i])}) >= 2

\* The records of the calls 1..n of the log that returned True, in order.
RECURSIVE AcceptedOf(_)
AcceptedOf(n) ==
    IF n = 0 THEN <<>>
    ELSE IF log[n].returned THEN Append(AcceptedOf(n - 1), log[n].scholarship)
    ELSE AcceptedOf(n - 1)

\* C8: the accepted list holds exactly the submissions that were not judged
\* a duplicate of the accepted list as it stood when they were submitted.
C8_Membership ==
    /\ scholarships = AcceptedOf(Len(log))
    /\ \A j \in Calls :
           /\ log[j].before = AcceptedOf(j - 1)
           /\ log[j].returned
                  = ~is_duplicate(log[j].scholarship, log[j].before,
                                  similarity_threshold, 0).result

\* Three submissions, the second one rejected and the third one accepted.
C8_Witness ==
    /\ Len(log) = 3
    /\ log[1].returned /\ ~log[2].returned /\ log[3].returned
    /\ Norm(log[3].scholarship) # <<>>

\* C9: a call of add_scholarship that returns False leaves the accepted
\* list unchanged and one that returns True extends it by the submitted
\* record at the end; nothing else changes the list.
C9_AppendOnly ==
    [][IF log' # log
       THEN IF log'[Len(log')].returned
            THEN scholarships'
                     = Append(scholarships, log'[Len(log')].scholarship)
            ELSE scholarships' = scholarships
       ELSE scholarships' = scholarships]_vars

\* Two records are accepted, a record was rejected in between, and the
\* first one is a fuzzy duplicate of the one accepted after it.
C9_Witness ==
    /\ Len(log) = 3 /\ Len(scholarships) = 2
    /\ log[1].returned /\ ~log[2].returned /\ log[3].returned
    /\ is_duplicate(scholarships[1], <<scholarships[2]>>,
                    similarity_threshold, 0).result

\* C10 as stated: when A then B on a fresh checker rejects B, B then A on a
\* fresh checker rejects A.
C10_FirstSeenWinsBothOrders ==
    (Len(log) = 2 /\ log[1].returned /\ ~log[2].returned)
    => /\ scholarships = <<log[1].scholarship>>
       /\ ~is_duplicate(log[2].scholarship, <<>>,
                        similarity_threshold, 0).result
       /\ is_duplicate(log[1].scholarship, <<log[2].scholarship>>,
                       similarity_threshold, 0).result

(***************************************************************************)
(* Properties of similarity_score and clean_title called on their own.     *)
(***************************************************************************)

\* C11 as stated: similarity_score(a, b) equals similarity_score(b, a) for
\* all strings a and b.
C11_Symmetric ==
    ret.op = "similarity_score" => ret.value = similarity_score(ret.b, ret.a)

\* The string s contains '20' followed by two digits.
HasYear(s) ==
    \E i \in 1..(Len(s) - 3) :
        s[i] = "2" /\ s[i + 1] = "0" /\ IsDigit(s[i + 2]) /\ IsDigit(s[i + 3])

\* C14 as stated: the result of clean_title contains no four-digit year
\* substring, for every title.
C14_NoYearRemains ==
    ret.op = "clean_title" => ~HasYear(ret.value)

\* C15 as stated: a title and the same title followed by a year range
\* ('2025/26', '2025-26', '2024/2025', '2024-2025') normalize to the same
\* string, none of the digits of the second year remaining.
C15_YearRangeStrippedWhole ==
    (ret.op = "clean_title"
        /\ \E range \in YearRanges : ret.title = WithYearRange(range))
    => /\ ret.value = clean_title(TitleDaad)
       /\ \A i \in 1..Len(ret.value) : ~IsDigit(ret.value[i])

\* C16 as stated: clean_title(clean_title(x)) is not shorter than
\* clean_title(x), for every title x.
C16_SecondCallDoesNotShrink ==
    ret.op = "clean_title_again" => Len(ret.value) >= Len(ret.title)

\* The phrase p is a substring of s.
Contains(s, p) == \E i \in 1..Len(s) : OccursAt(s, i, p)

\* C17 as stated: the result of clean_title contains none of the phrases of
\* the removal list as a substring, for every title.
C17_NoFillerRemains ==
    ret.op = "clean_title"
    => \A k \in 1..Len(phrases_to_remove) :
           ~Contains(ret.value, phrases_to_remove[k])

\* C18 as stated: the result of clean_title has no leading or trailing
\* whitespace and no two consecutive whitespace characters, for every title.
C18_WhitespaceCollapsed ==
    (ret.op = "clean_title" /\ ret.value # <<>>)
    => /\ ~IsSpace(ret.value[1])
       /\ ~IsSpace(ret.value[Len(ret.value)])
       /\ \A i \in 1..(Len(ret.value) - 1) :
              ~(IsSpace(ret.value[i]) /\ IsSpace(ret.value[i + 1]))

\* The title t is one word of lower-case letters that is not itself a phrase
\* of the removal list.
OtherWord(t) ==
    /\ t # <<>>
    /\ \A i \in 1..Len(t) : \E k \in 1..Len(LowerChars) : t[i] = LowerChars[k]
    /\ \A k \in 1..Len(phrases_to_remove) : t # phrases_to_remove[k]

\* C20 as stated: a title that is one word other than a filler, also one
\* that contains 'in', 'at', 'for' or 'the' as a substring, keeps all its
\* letters.
C20_OtherWordsKeepTheirLetters ==
    (ret.op = "clean_title" /\ OtherWord(ret.title)) => ret.value = ret.title

(***************************************************************************)
(* The example run.                                                        *)
(***************************************************************************)

\* The three records of the example were submitted in their order.
ExampleRun ==
    /\ Len(log) = 3
    /\ log[1].scholarship = scholarship1
    /\ log[2].scholarship = scholarship2
    /\ log[3].scholarship = scholarship3

\* C12: on a fresh checker the first record of the example is accepted, the
\* second rejected, the third accepted, and get_stats then reports
\* total_processed = 3, duplicates_found = 1, unique_scholarships = 2.
C12_ReferenceScenario ==
    ExampleRun
    => /\ log[1].returned /\ ~log[2].returned /\ log[3].returned
       /\ scholarships = <<scholarship1, scholarship3>>
       /\ duplicate_count = 1
       /\ ret.op = "get_stats"
          => ret.value = [total_processed |-> 3, duplicates_found |-> 1,
                          unique_scholarships |-> 2]

\* The example was run to its end: the statistics are returned.
C12_Witness ==
    ExampleRun /\ ret.op = "get_stats" /\ ret.value.total_processed = 3

(***************************************************************************)
(* Missing fields.                                                         *)
(***************************************************************************)

\* The field value v is absent (None) or empty.
Missing(v) == v = None \/ v = <<>>

\* A signal between s and e has all the fields it compares present in both
\* records: equal deadlines, the universities, or the countries and the
\* deadlines.
SignalOnPresentFields(s, e) ==
    \/ ~Missing(s.Deadline) /\ ~Missing(e.Deadline) /\ s.Deadline = e.Deadline
    \/ ~Missing(s.HostUniversity) /\ ~Missing(e.HostUniversity)
    \/ /\ ~Missing(s.HostCountry) /\ ~Missing(e.HostCountry)
       /\ ~Missing(s.Deadline) /\ ~Missing(e.Deadline)

\* C13: add_scholarship returns a boolean for every record, also one whose
\* fields are None or empty, and a field that is absent or empty in the
\* candidate or in the accepted record corroborates nothing: a record
\* without an exact title match is rejected only against an accepted record
\* with which a signal has all its fields present.
C13_MissingFieldsNeverCorroborate ==
    /\ ret.op = "add_scholarship" => ret.value \in BOOLEAN
    /\ \A j \in Calls :
           /\ log[j].returned \in BOOLEAN
           /\ (/\ ~log[j].returned
               /\ ~HasTitle(log[j].before, Norm(log[j].scholarship)))
              => \E i \in 1..Len(log[j].before) :
                     SignalOnPresentFields(log[j].scholarship,
                                           log[j].before[i])

\* A record whose deadline is None was accepted although an accepted record
\* passes the title test and has a None deadline as well; its university is
\* present and that of the accepted record is not.
C13_Witness ==
    \E j \in Calls : \E i \in 1..Len(log[j].before) :
        /\ log[j].returned
        /\ TitleAtLeast(log[j].scholarship, log[j].before[i])
        /\ log[j].scholarship.Deadline = None
        /\ log[j].before[i].Deadline = None
        /\ ~Missing(log[j].scholarship.HostUniversity)
        /\ Missing(log[j].before[i].HostUniversity)

(***************************************************************************)
(* The dry run of main.                                                    *)
(***************************************************************************)

\* C19: when main is called with dry_run = True no scraper function is ever
\* called, no region file, combined file or moved file is produced, and the
\* browser is quit when main has returned.
C19_DryRunScrapesNothing ==
    (pc # "not called" /\ dry_run)
    => /\ scraper_calls = <<>>
       /\ all_csv_files = <<>>
       /\ \A name \in RegionNames : cwd[name] = "absent"
       /\ output = {}
       /\ pc \in {"dry run", "returned", "raised"}
       /\ pc = "returned" => driver = "quit"
       /\ pc = "raised" => driver = "none"

\* A dry run has returned.
C19_Witness ==
    dry_run /\ pc = "returned" /\ driver = "quit"

(***************************************************************************)
(* The accepted list and the statistics under all public methods.          *)
(***************************************************************************)

\* C21: no two distinct positions of the accepted list hold records with
\* the same non-empty normalized title; records whose normalized title is
\* empty may repeat.
C21_TitlesDistinct ==
    \A i \in 1..Len(scholarships) : \A j \in 1..Len(scholarships) :
        (i # j /\ Norm(scholarships[i]) = Norm(scholarships[j]))
        => Norm(scholarships[i]) = <<>>

\* The list holds two records with an empty normalized title and a record
\* with a non-empty one.
C21_Witness ==
    /\ \E i \in 1..Len(scholarships) : \E j \in 1..Len(scholarships) :
           i # j /\ Norm(scholarships[i]) = <<>> /\ Norm(scholarships[j]) = <<>>
    /\ \E i \in 1..Len(scholarships) : Norm(scholarships[i]) # <<>>

\* C22 as stated: after any interleaving of is_duplicate, add_scholarship
\* and get_stats, total_processed is the number of add_scholarship calls
\* and duplicates_found the number of them that returned False.
C22_StatsCountAddCallsOnly ==
    LET stats == get_stats(scholarships, duplicate_count)
    IN  /\ stats.total_processed = Len(log)
        /\ stats.duplicates_found = Returned(FALSE)

(***************************************************************************)
(* The callers of the checker.                                             *)
(***************************************************************************)

\* The records of the rows, in order.
RecordsOf(rows) == [i \in 1..Len(rows) |-> rows[i].record]

\* The row is one of rows.
RowIn(row, rows) == \E i \in 1..Len(rows) : rows[i] = row

\* The rows that one checker, fed rows in order, accepts.
RECURSIVE UniqueOf(_)
UniqueOf(rows) ==
    IF rows = <<>> THEN <<>>
    ELSE LET front == UniqueOf(SubSeq(rows, 1, Len(rows) - 1))
             last == rows[Len(rows)]
         IN  IF is_duplicate(last.record, RecordsOf(front),
                             DefaultThreshold, 0).result
             THEN front
             ELSE Append(front, last)

C24_FailuresIsolated ==
    (caller = "combine_csv_files" /\ caller_pc = "returned"
        /\ fieldnames # "none")
    => /\ Len(file_log) = Len(csv_files)
       /\ \A i \in 1..Len(file_log) : file_log[i].file = csv_files[i]
       /\ all_rows = <<>> => DOMAIN out_files = {}
       /\ all_rows # <<>>
          => /\ DOMAIN out_files = {AllFile, UniqueFile}
             /\ out_files[AllFile] = all_rows
             /\ out_files[UniqueFile] = unique_rows

(***************************************************************************)
(* safe_file_move.                                                         *)
(***************************************************************************)

\* C25: in a call of safe_file_move with create_backup = True on an
\* existing destination, the destination is not removed or overwritten
\* before the backup holds its content, so at every moment and whatever is
\* returned, the content the destination had is at the destination or at
\* the backup path; and when True is returned the destination holds the
\* source's content and the source path no longer exists.
C25_DestinationNeverLost ==
    /\ (move_pc # "not called" /\ create_backup /\ dest_before # "absent")
       => /\ fs["dest"] = dest_before \/ fs["backup"] = dest_before
          /\ move_pc = "move" => fs["backup"] = dest_before
    /\ move_result = "True"
       => /\ fs["dest"] = "s"
          /\ src_file # "dest"
          /\ fs[src_file] = "absent"

\* A call with create_backup = True on an existing destination returned
\* False after the destination was removed: its content is at the backup
\* path.
C25_Witness ==
    /\ move_pc = "returned"
    /\ create_backup
    /\ dest_before = "d"
    /\ fs["backup"] = "d"
    /\ fs["dest"] = "absent"
    /\ move_result = "False"

(***************************************************************************)
(* The regions of a run of main that is not a dry run.                     *)
(***************************************************************************)

\* The scraper raised, returned None or returned a file that does not exist.
RegionFailed(call) ==
    call.result \in {"raise", "none"} \/ call.content = "absent"

\* Every region is scraped once, in the order of the table, whatever the
\* earlier regions did, before main goes on to the combine step.
ScrapedInOrder ==
    /\ Len(scraper_calls) = region_index
    /\ \A i \in 1..Len(scraper_calls) :
           /\ scraper_calls[i].region = regions[i].name
           /\ scraper_calls[i].scraper = regions[i].type
    /\ (~dry_run /\ pc \in {"combine", "finally", "returned"})
       => region_index = Len(regions)

\* The combine step has run on the valid files of the successful regions.
CombineRuns ==
    (~dry_run /\ pc \in {"finally", "returned"})
    => /\ combine_call.called <=> all_csv_files # <<>>
       /\ Range(combine_call.files) \subseteq Range(all_csv_files)
       /\ \A i \in 1..Len(scraper_calls) :
              (~RegionFailed(scraper_calls[i])
               /\ validate_csv_file(scraper_calls[i].content))
              => scraper_calls[i].region \in Range(combine_call.files)

\* The browser is quit when main has returned.
BrowserQuit ==
    (~dry_run /\ pc = "returned") => driver = "quit"

\* C26 as stated: a region whose scraper raised, returned None or returned a
\* file that does not exist contributes no file to the list that is combined;
\* every region is still scraped in order, the combine step runs on the files
\* of the successful regions, and the browser is quit when main has returned,
\* also when the combine step raised.
C26_FailedRegionContributesNoFile ==
    /\ \A i \in 1..Len(scraper_calls) :
           RegionFailed(scraper_calls[i])
           => scraper_calls[i].region \notin Range(all_csv_files)
    /\ ScrapedInOrder
    /\ CombineRuns
    /\ BrowserQuit

\* C26 amended: the loop appends no file for a region whose scraper raised,
\* returned None or returned a file that does not exist, and appends the file
\* of every other region; a failed region is in the list that is combined
\* only after cleanup_temporary_files has run and only if its scraper left a
\* valid file in the working directory.  Every region is still scraped in
\* order, the combine step runs on the files of the successful regions, and
\* the browser is quit when main has returned, also when the combine step
\* raised.
C26_FailureContained ==
    /\ \A i \in 1..Len(scraper_calls) :
           IF RegionFailed(scraper_calls[i])
           THEN scraper_calls[i].region \in Range(all_csv_files)
                => /\ pc \in {"combine", "finally", "returned"}
                   /\ validate_csv_file(scraper_calls[i].content)
                   /\ scraper_calls[i].result # "file"
           ELSE scraper_calls[i].region \in Range(all_csv_files)
    /\ ScrapedInOrder
    /\ CombineRuns
    /\ BrowserQuit

\* main has returned from a run in which the first scraper returned None and
\* left a valid file, the second raised and left nothing, the third returned
\* its file, and the combine step raised: the files of the first and the
\* third region were combined and the browser is quit.
C26_Witness ==
    /\ pc = "returned" /\ ~dry_run /\ driver = "quit"
    /\ Len(scraper_calls) = 3
    /\ scraper_calls[1].result = "none" /\ scraper_calls[1].content = "rows"
    /\ scraper_calls[2].result = "raise"
    /\ scraper_calls[2].content = "absent"
    /\ scraper_calls[3].result = "file" /\ scraper_calls[3].content = "rows"
    /\ combine_call.called /\ combine_call.raised
    /\ Range(combine_call.files) = {regions[1].name, regions[3].name}

(***************************************************************************)
(* The upload.                                                             *)
(***************************************************************************)

\* C27: processing the same CSV file a second time inserts no row when the
\* first time went through every row without a failure, and the table
\* never holds two rows that were inserted for the same row of the file.
C27_UploadIdempotent ==
    /\ \A i \in 1..Len(table) : \A j \in 1..Len(table) :
           (i # j /\ table[i].record = table[j].record)
           => table[i].record = 0
    /\ (upload_pass = 2 /\ failed_rows = {}) => inserted_rows = 0

\* The slug the claim expects for a base slug: the base slug if no row has
\* it, else the base slug with the smallest suffix from 1 on that no row has.
ExpectedSlug(rows, base) ==
    IF SlugCount(rows, base) = 0 THEN base
    ELSE LET free == {n \in 1..(Len(rows) + 1) :
                         SlugCount(rows, base \o <<"-">> \o str(n)) = 0}
         IN  base \o <<"-">> \o str(Min(free))

\* C28: ensure_unique_slug returns a slug that no row of the table has: the
\* base slug if it is unused, else the base slug with the smallest suffix
\* N >= 1 for which the slug is unused.
C28_SlugUnusedAndSmallest ==
    slug_call.called
    => /\ SlugCount(slug_call.rows, slug_call.value) = 0
       /\ slug_call.value = ExpectedSlug(slug_call.rows, slug_call.base)

(***************************************************************************)
(* The verification of the CSV files.                                      *)
(***************************************************************************)

\* C29: every file that verify_csv_files has checked is counted once, as
\* valid, repaired or failed; the files counted as repaired are the files
\* that a repair has rewritten, and the files counted as valid are the files
\* that were read without a repair.
C29_CountsClassify ==
    /\ valid_count + repaired_count + failed_count = checked
    /\ repaired_count = Cardinality(rewritten)
    /\ valid_count = Cardinality(unrepaired)

(***************************************************************************)
(* find_duplicates.                                                        *)
(***************************************************************************)

\* C30: when find_duplicates has returned, no row is in two of the pairs
\* that the similarity pass marked, the duplicate_count it reports is the
\* number of rows that are not in the deduplicated output, and the output
\* holds every row that is not marked and exactly one row of each pair.
C30_EachDuplicateCountedOnce ==
    find_pc = "returned"
    => /\ \A p \in 1..Len(pairs) : \A q \in 1..Len(pairs) :
              p # q => pairs[p] \cap pairs[q] = {}
       /\ reported = Len(combined_df) - Cardinality(filtered_df)
       /\ \A i \in 1..Len(combined_df) :
              ~combined_df[i].is_duplicate => i \in filtered_df
       /\ \A p \in 1..Len(pairs) :
              Cardinality(pairs[p] \cap filtered_df) = 1

====
